---- MODULE Spec2Model ----
(***************************************************************************)
(* Model of the SOME/IP-TP reassembly engine of someip-parse-rs:           *)
(* TpRange (tp_range.rs), TpBuf (tp_buf.rs), TpPool (tp_pool.rs), together *)
(* with the parts of the header codec they rest on (someip_header.rs,      *)
(* tp_header.rs, someip_msg_slice.rs).  Messages are byte sequences; the   *)
(* byte with 0-based index i of the source is element i + 1 here.          *)
(***************************************************************************)
EXTENDS Integers, Sequences, FiniteSets, TLC

VARIABLES
    sut,        \* what is driven: "buf" (a standalone TpBuf) or "pool" (a TpPool)
    buf,        \* a standalone TpBuf
    fed,        \* summary of the segments fed to buf since new()/clear()
    bcall,      \* the last call made on buf
    bres,       \* the result of the last call made on buf
    active,     \* TpPool.active: (channel id, request id) -> (TpBuf, timestamp)
    finished,   \* TpPool.finished: the free-list
    shadow,     \* per key: a fresh pool fed with the TP segments of that key alone
    mids,       \* per active key: message ids of the segments accepted by its buffer
    pcall,      \* the last call made on the pool
    pres,       \* the result of the last call made on the pool
    wire,       \* the transport payload a SomeipMsgsIterator was created on
    it,         \* the SomeipMsgsIterator
    yielded,    \* the items the calls of next() returned, in order
    tph,        \* a TpHeader
    tcall,      \* the last call made on (or creating) tph
    tres,       \* the result of that call
    cin,        \* the input of a header codec call: a header with payload, or a slice
    cout,       \* what the codec calls gave on cin
    sdin,       \* the input of a service discovery call: a header, an option, a wire
    sdout       \* the call made on sdin and what it gave

bufVars == <<buf, fed, bcall, bres>>
poolVars == <<active, finished, shadow, mids, pcall, pres>>
iterVars == <<wire, it, yielded>>
tphVars == <<tph, tcall, tres>>
codecVars == <<cin, cout>>
sdVars == <<sdin, sdout>>
vars == <<sut, buf, fed, bcall, bres, active, finished, shadow, mids, pcall, pres,
          wire, it, yielded, tph, tcall, tres, cin, cout, sdin, sdout>>

\* What a step of one component leaves unchanged
exceptBuf == <<sut, poolVars, iterVars, tphVars, codecVars, sdVars>>
exceptPool == <<sut, bufVars, iterVars, tphVars, codecVars, sdVars>>
exceptIter == <<sut, bufVars, poolVars, tphVars, codecVars, sdVars>>
exceptTph == <<sut, bufVars, poolVars, iterVars, codecVars, sdVars>>
exceptCodec == <<sut, bufVars, poolVars, iterVars, tphVars, sdVars>>
exceptSd == <<sut, bufVars, poolVars, iterVars, tphVars, codecVars>>

----------------------------------------------------------------------------
(* Program constants                                                       *)

SOMEIP_PROTOCOL_VERSION == 1
SOMEIP_LEN_OFFSET_TO_PAYLOAD == 8
SOMEIP_HEADER_LENGTH == 16
TP_HEADER_LENGTH == 4
SOMEIP_HEADER_MESSAGE_TYPE_TP_FLAG == 32

\* MessageType as u8 (message_type.rs)
MessageTypeRequest == 0
MessageTypeRequestNoReturn == 1
MessageTypeNotification == 2
MessageTypeResponse == 128
MessageTypeError == 129
KnownMessageTypes ==
    {MessageTypeRequest, MessageTypeRequestNoReturn, MessageTypeNotification,
     MessageTypeResponse, MessageTypeError}

----------------------------------------------------------------------------
(* Bytes                                                                   *)

Min(a, b) == IF a <= b THEN a ELSE b
Max(a, b) == IF a >= b THEN a ELSE b

\* u32::to_be_bytes
to_be_bytes(v) ==
    << (v \div 16777216) % 256, (v \div 65536) % 256, (v \div 256) % 256, v % 256 >>

\* u32::from_be_bytes of the four bytes at 0-based index i of s
get_unchecked_be_u32(s, i) ==
    s[i + 1] * 16777216 + s[i + 2] * 65536 + s[i + 3] * 256 + s[i + 4]

\* u16::from_be_bytes of the two bytes at 0-based index i of s
get_unchecked_be_u16(s, i) == s[i + 1] * 256 + s[i + 2]

\* b & 0x20 != 0
HasTpFlag(b) == (b \div SOMEIP_HEADER_MESSAGE_TYPE_TP_FLAG) % 2 = 1

\* b & !0x20  (also b & 0b1101_1111)
ClearTpFlag(b) == IF HasTpFlag(b) THEN b - SOMEIP_HEADER_MESSAGE_TYPE_TP_FLAG ELSE b

\* b | 0x20
SetTpFlag(b) == IF HasTpFlag(b) THEN b ELSE b + SOMEIP_HEADER_MESSAGE_TYPE_TP_FLAG

\* s[from..to) of the source (0-based, half-open)
Slice(s, from, to) == [i \in 1..(to - from) |-> s[from + i]]

\* s with s[at..at+Len(src)) overwritten by src (clone_from_slice)
Overwrite(s, at, src) ==
    [i \in 1..Len(s) |->
        IF i > at /\ i <= at + Len(src) THEN src[i - at] ELSE s[i]]

\* Vec::resize(n, 0) for n >= Len(s)
ResizeZero(s, n) == [i \in 1..n |-> IF i <= Len(s) THEN s[i] ELSE 0]

----------------------------------------------------------------------------
(* TpHeader (tp_header.rs)                                                 *)

\* TpHeader::to_bytes
tp_to_bytes(tp) ==
    LET r == to_be_bytes(tp.offset)
    IN  << r[1], r[2], r[3], IF tp.more_segment /\ r[4] % 2 = 0 THEN r[4] + 1 ELSE r[4] >>

\* TpHeader::from_slice_unchecked on the four bytes at 0-based index i of s
tp_from_slice_unchecked(s, i) ==
    [ offset |-> s[i + 1] * 16777216 + s[i + 2] * 65536 + s[i + 3] * 256
                    + (s[i + 4] - (s[i + 4] % 16)),
      more_segment |-> s[i + 4] % 2 = 1 ]

\* TpHeader::new
TpHeader_new(more_segment) == [offset |-> 0, more_segment |-> more_segment]

\* Results with a value error or an i/o error: Ok, Err(error(value))
ValueOk == [ok |-> TRUE, err |-> "", val |-> 0]
ValueErr(e, v) == [ok |-> FALSE, err |-> e, val |-> v]

\* TpHeader::with_offset: the result and, if Ok, the header
with_offset(offset, more_segment) ==
    IF 0 # offset % 16
    THEN [res |-> ValueErr("TpOffsetNotMultipleOf16", offset), tp |-> TpHeader_new(FALSE)]
    ELSE [res |-> ValueOk, tp |-> [offset |-> offset, more_segment |-> more_segment]]

\* set_offset that stores the value before it checks it
set_offset_then_check(self, value) ==
    [res |-> IF 0 # value % 16 THEN ValueErr("TpOffsetNotMultipleOf16", value) ELSE ValueOk,
     tp |-> [self EXCEPT !.offset = value]]

\* TpHeader::set_offset: the result and the header after the call
set_offset(self, value) ==
    IF 0 # value % 16
    THEN [res |-> ValueErr("TpOffsetNotMultipleOf16", value), tp |-> self]
    ELSE [res |-> ValueOk, tp |-> [self EXCEPT !.offset = value]]

\* TpHeader::read from a reader that holds the bytes s (read_exact fails when
\* fewer than 4 bytes are left)
tp_read(s) ==
    IF Len(s) < TP_HEADER_LENGTH
    THEN [res |-> ValueErr("Io", Len(s)), tp |-> TpHeader_new(FALSE)]
    ELSE LET more_segment == s[4] % 2 = 1
             buffer == [s EXCEPT ![4] = s[4] - (s[4] % 16)]
         IN  [res |-> ValueOk,
              tp |-> [offset |-> get_unchecked_be_u32(buffer, 0),
                      more_segment |-> more_segment]]

\* TpHeader::read_from_slice
tp_read_from_slice(slice) ==
    IF Len(slice) < TP_HEADER_LENGTH
    THEN [res |-> ValueErr("UnexpectedEndOfSlice", TP_HEADER_LENGTH),
          tp |-> TpHeader_new(FALSE)]
    ELSE [res |-> ValueOk, tp |-> tp_from_slice_unchecked(slice, 0)]

----------------------------------------------------------------------------
(* SomeipHeader (someip_header.rs)                                         *)

NoTp == [some |-> FALSE, offset |-> 0, more_segment |-> FALSE]
SomeTp(offset, more) == [some |-> TRUE, offset |-> offset, more_segment |-> more]

\* base_to_bytes that never sets the TP flag in the message type byte
base_to_bytes_without_tp_flag(h) ==
    to_be_bytes(h.message_id) \o to_be_bytes(h.length) \o to_be_bytes(h.request_id)
        \o << SOMEIP_PROTOCOL_VERSION, h.interface_version, h.message_type, h.return_code >>

\* SomeipHeader::base_to_bytes
base_to_bytes(h) ==
    to_be_bytes(h.message_id) \o to_be_bytes(h.length) \o to_be_bytes(h.request_id)
        \o << SOMEIP_PROTOCOL_VERSION,
              h.interface_version,
              IF h.tp_header.some THEN SetTpFlag(h.message_type) ELSE h.message_type,
              h.return_code >>

\* SomeipHeader::service_id
header_service_id(h) == h.message_id \div 65536

\* set_method_or_event_id that keeps the 15 bits of a method id only
set_method_or_event_id_without_event_bit(h, method_id) ==
    [h EXCEPT !.message_id = (h.message_id \div 65536) * 65536 + (method_id % 32768)]

\* SomeipHeader::set_method_or_event_id
set_method_or_event_id(h, method_id) ==
    [h EXCEPT !.message_id = (h.message_id \div 65536) * 65536 + method_id]

\* SomeipHeader::is_event: 0 != message_id & 0x8000
is_event(h) == (h.message_id \div 32768) % 2 = 1

\* SomeipHeader::event_or_method_id
event_or_method_id(h) == h.message_id % 65536

\* SomeipHeader::write_raw: the bytes written
write_raw(h) ==
    base_to_bytes(h) \o (IF h.tp_header.some THEN tp_to_bytes(h.tp_header) ELSE << >>)

NoHeader ==
    [message_id |-> 0, length |-> 0, request_id |-> 0, interface_version |-> 0,
     message_type |-> 0, return_code |-> 0, tp_header |-> NoTp]

HeaderOk(h) == [ok |-> TRUE, err |-> "", val |-> 0, hdr |-> h]
HeaderErr(e, v) == [ok |-> FALSE, err |-> e, val |-> v, hdr |-> NoHeader]

\* SomeipHeader::read from a reader that holds the bytes s (read_exact fails
\* when too few bytes are left)
someip_read(s) ==
    IF Len(s) < SOMEIP_HEADER_LENGTH
    THEN HeaderErr("Io", Len(s))
    ELSE LET length == get_unchecked_be_u32(s, 4)
             protocol_version == s[12 + 1]
             message_type_raw == s[14 + 1]
             tp == IF HasTpFlag(message_type_raw)
                   THEN tp_read(Slice(s, SOMEIP_HEADER_LENGTH, Len(s)))
                   ELSE [res |-> ValueOk, tp |-> TpHeader_new(FALSE)]
         IN  IF length < SOMEIP_LEN_OFFSET_TO_PAYLOAD
             THEN HeaderErr("LengthFieldTooSmall", length)
             ELSE IF SOMEIP_PROTOCOL_VERSION # protocol_version
             THEN HeaderErr("UnsupportedProtocolVersion", protocol_version)
             ELSE IF ClearTpFlag(message_type_raw) \notin KnownMessageTypes
             THEN HeaderErr("UnknownMessageType", message_type_raw)
             ELSE IF ~tp.res.ok
             THEN HeaderErr("Io", Len(s))
             ELSE HeaderOk([message_id |-> get_unchecked_be_u32(s, 0),
                            length |-> length,
                            request_id |-> get_unchecked_be_u32(s, 8),
                            interface_version |-> s[13 + 1],
                            message_type |-> ClearTpFlag(message_type_raw),
                            return_code |-> s[15 + 1],
                            tp_header |-> IF HasTpFlag(message_type_raw)
                                          THEN SomeTp(tp.tp.offset, tp.tp.more_segment)
                                          ELSE NoTp])

\* The bytes of a message as the tests build them: base header, TP header, payload
MsgBytes(h, pl) ==
    base_to_bytes(h) \o (IF h.tp_header.some THEN tp_to_bytes(h.tp_header) ELSE <<>>) \o pl

----------------------------------------------------------------------------
(* SomeipMsgSlice (someip_msg_slice.rs)                                    *)

ReadOk(m) == [ok |-> TRUE, err |-> "", val |-> 0, msg |-> m]
ReadErr(e, v) == [ok |-> FALSE, err |-> e, val |-> v, msg |-> [tp |-> FALSE, slice |-> <<>>]]

\* from_slice without the length check for messages with the TP flag
from_slice_without_tp_length_check(slice) ==
    IF Len(slice) < SOMEIP_HEADER_LENGTH
    THEN ReadErr("UnexpectedEndOfSlice", Len(slice))
    ELSE LET len == get_unchecked_be_u32(slice, 4)
             total_length == len + 4 * 2
             protocol_version == slice[4 * 3 + 1]
             message_type == slice[4 * 3 + 2 + 1]
         IN  IF len < SOMEIP_LEN_OFFSET_TO_PAYLOAD
             THEN ReadErr("LengthFieldTooSmall", len)
             ELSE IF Len(slice) < total_length
             THEN ReadErr("UnexpectedEndOfSlice", Len(slice))
             ELSE IF SOMEIP_PROTOCOL_VERSION # protocol_version
             THEN ReadErr("UnsupportedProtocolVersion", protocol_version)
             ELSE IF ClearTpFlag(message_type) \notin KnownMessageTypes
             THEN ReadErr("UnknownMessageType", message_type)
             ELSE ReadOk([tp |-> HasTpFlag(message_type),
                          slice |-> Slice(slice, 0, total_length)])

\* SomeipMsgSlice::from_slice (64 bit)
from_slice(slice) ==
    IF Len(slice) < SOMEIP_HEADER_LENGTH
    THEN ReadErr("UnexpectedEndOfSlice", Len(slice))
    ELSE LET len == get_unchecked_be_u32(slice, 4)
             total_length == len + 4 * 2
             protocol_version == slice[4 * 3 + 1]
             message_type == slice[4 * 3 + 2 + 1]
             tp == HasTpFlag(message_type)
         IN  IF len < SOMEIP_LEN_OFFSET_TO_PAYLOAD
             THEN ReadErr("LengthFieldTooSmall", len)
             ELSE IF Len(slice) < total_length
             THEN ReadErr("UnexpectedEndOfSlice", Len(slice))
             ELSE IF SOMEIP_PROTOCOL_VERSION # protocol_version
             THEN ReadErr("UnsupportedProtocolVersion", protocol_version)
             ELSE IF tp /\ len < SOMEIP_LEN_OFFSET_TO_PAYLOAD + 4
             THEN ReadErr("LengthFieldTooSmall", len)
             ELSE IF ClearTpFlag(message_type) \notin KnownMessageTypes
             THEN ReadErr("UnknownMessageType", message_type)
             ELSE ReadOk([tp |-> tp, slice |-> Slice(slice, 0, total_length)])

msg_message_id(m) == get_unchecked_be_u32(m.slice, 0)
msg_length(m) == get_unchecked_be_u32(m.slice, 4)
msg_request_id(m) == get_unchecked_be_u32(m.slice, 8)
msg_interface_version(m) == m.slice[13 + 1]
msg_message_type_raw(m) == m.slice[14 + 1]
msg_message_type(m) == ClearTpFlag(msg_message_type_raw(m))
msg_return_code(m) == m.slice[15 + 1]
msg_is_tp(m) == m.tp
msg_service_id(m) == get_unchecked_be_u16(m.slice, 0)
msg_is_event(m) == (m.slice[2 + 1] \div 128) % 2 = 1
msg_event_or_method_id(m) == get_unchecked_be_u16(m.slice, 2)

\* SomeipMsgSlice::payload
payload(m) ==
    IF m.tp
    THEN Slice(m.slice, SOMEIP_HEADER_LENGTH + TP_HEADER_LENGTH, Len(m.slice))
    ELSE Slice(m.slice, SOMEIP_HEADER_LENGTH, Len(m.slice))

\* SomeipMsgSlice::tp_header
tp_header(m) ==
    IF m.tp
    THEN LET t == tp_from_slice_unchecked(m.slice, SOMEIP_HEADER_LENGTH)
         IN  SomeTp(t.offset, t.more_segment)
    ELSE NoTp

\* SomeipMsgSlice::to_header
to_header(m) ==
    [ message_id |-> msg_message_id(m),
      length |-> msg_length(m),
      request_id |-> msg_request_id(m),
      interface_version |-> msg_interface_version(m),
      message_type |-> msg_message_type(m),
      return_code |-> msg_return_code(m),
      tp_header |-> tp_header(m) ]

----------------------------------------------------------------------------
(* TpRange (tp_range.rs)                                                   *)

TpRange(start, end) == [start |-> start, end |-> end]

\* is_value_connected that takes the bounds of the range as outside of it
is_value_strictly_inside(r, value) == r.start < value /\ r.end > value

\* TpRange::is_value_connected
is_value_connected(r, value) == r.start <= value /\ r.end >= value

\* TpRange::merge, None as [some |-> FALSE]
merge(self, other) ==
    IF is_value_connected(self, other.start)
        \/ is_value_connected(self, other.end)
        \/ is_value_connected(other, self.start)
        \/ is_value_connected(other, self.end)
    THEN [some |-> TRUE,
          range |-> TpRange(Min(self.start, other.start), Max(self.end, other.end))]
    ELSE [some |-> FALSE, range |-> self]

----------------------------------------------------------------------------
(* TpBuf (tp_buf.rs)                                                       *)

NoEnd == [some |-> FALSE, val |-> 0]
SomeEnd(v) == [some |-> TRUE, val |-> v]

\* TpBufConfig::tp_max_payload_len of the configuration every buffer is built with
TpMaxPayloadLen == 40

\* TpBuf::new
TpBuf_new == [data |-> <<>>, sections |-> <<>>, end |-> NoEnd]

\* clear that leaves the recorded end in the buffer
clear_keep_end(b) == [data |-> <<>>, sections |-> <<>>, end |-> b.end]

\* TpBuf::clear
clear(b) == [data |-> <<>>, sections |-> <<>>, end |-> NoEnd]

TpOk == [tag |-> "Ok", a |-> 0, b |-> 0, c |-> 0]
\* SegmentTooBig { offset: a, payload_len: b, max: c }
SegmentTooBig(offset, payload_len, max) ==
    [tag |-> "SegmentTooBig", a |-> offset, b |-> payload_len, c |-> max]
\* UnalignedTpPayloadLen { offset: a, payload_len: b }
UnalignedTpPayloadLen(offset, payload_len) ==
    [tag |-> "UnalignedTpPayloadLen", a |-> offset, b |-> payload_len, c |-> 0]
\* ConflictingEnd { previous_end: a, conflicting_end: b }
ConflictingEnd(previous_end, conflicting_end) ==
    [tag |-> "ConflictingEnd", a |-> previous_end, b |-> conflicting_end, c |-> 0]
\* AllocationFailure { len: a }
AllocationFailure(len) == [tag |-> "AllocationFailure", a |-> len, b |-> 0, c |-> 0]

\* The sections.retain(..) closure of consume_tp: every stored section that merges
\* with the (growing) new section is removed and folded into it.
RECURSIVE retain_merge(_, _, _)
retain_merge(sections, i, acc) ==
    IF i > Len(sections)
    THEN acc
    ELSE LET m == merge(acc.new_section, sections[i])
         IN  IF m.some
             THEN retain_merge(sections, i + 1,
                               [kept |-> acc.kept, new_section |-> m.range])
             ELSE retain_merge(sections, i + 1,
                               [kept |-> Append(acc.kept, sections[i]),
                                new_section |-> acc.new_section])

\* too_big with the bound off by one: a segment that fills the buffer exactly to
\* the maximum is rejected
too_big_off_by_one(offset, payload_len) ==
    (TpMaxPayloadLen < offset) \/ (TpMaxPayloadLen - offset <= payload_len)

\* consume_tp, the check against the configured maximum (tp_buf.rs 162-170)
too_big(offset, payload_len) ==
    (TpMaxPayloadLen < offset) \/ (TpMaxPayloadLen - offset < payload_len)

\* unaligned with blocks of 8 bytes in place of 16
unaligned_mod_8(more_segment, payload_len) ==
    more_segment /\ 0 # payload_len % 8

\* consume_tp, the alignment check (tp_buf.rs 173-178)
unaligned(more_segment, payload_len) ==
    more_segment /\ 0 # payload_len % 16

\* conflicting_end without the test of a second, different end
conflicting_end_only_after(b, more_segment, end) ==
    b.end.some /\ b.end.val < end

\* consume_tp, the check against a recorded end (tp_buf.rs 183-191)
conflicting_end(b, more_segment, end) ==
    b.end.some /\ (b.end.val < end \/ ((~more_segment) /\ end # b.end.val))

\* copy_header that leaves the TP flag in the copied header
copy_header_keep_flag(data, offset, slice) ==
    IF 0 = offset
    THEN Overwrite(data, 0, Slice(slice, 0, SOMEIP_HEADER_LENGTH))
    ELSE data

\* consume_tp, the header copy for offset 0 (tp_buf.rs 207-213)
copy_header(data, offset, slice) ==
    IF 0 = offset
    THEN LET d == Overwrite(data, 0, Slice(slice, 0, SOMEIP_HEADER_LENGTH))
         IN  [d EXCEPT ![4 * 3 + 2 + 1] = ClearTpFlag(d[4 * 3 + 2 + 1])]
    ELSE data

\* consume_tp, the end that a segment without more_segment records (tp_buf.rs 236-238)
set_end(b, more_segment, end) ==
    IF ~more_segment THEN SomeEnd(end) ELSE b.end

\* consume_tp that keeps the bytes it has already received: the payload is
\* written only at the positions no stored section covers
consume_tp_keep_received(b, someip_slice, alloc_ok) ==
    LET tp == tp_header(someip_slice)
        pl == payload(someip_slice)
        end == tp.offset + Len(pl)
        required_len == SOMEIP_HEADER_LENGTH + tp.offset + Len(pl)
    IN  IF too_big(tp.offset, Len(pl))
        THEN [res |-> SegmentTooBig(tp.offset, Len(pl), TpMaxPayloadLen), buf |-> b]
        ELSE IF unaligned(tp.more_segment, Len(pl))
        THEN [res |-> UnalignedTpPayloadLen(tp.offset, Len(pl)), buf |-> b]
        ELSE IF conflicting_end(b, tp.more_segment, end)
        THEN [res |-> ConflictingEnd(b.end.val, end), buf |-> b]
        ELSE IF Len(b.data) < required_len /\ ~alloc_ok
        THEN [res |-> AllocationFailure(required_len), buf |-> b]
        ELSE LET d0 == IF Len(b.data) < required_len
                       THEN ResizeZero(b.data, required_len)
                       ELSE b.data
                 d1 == copy_header(d0, tp.offset, someip_slice.slice)
                 d2 == Overwrite(d1, SOMEIP_HEADER_LENGTH + tp.offset, pl)
                 d3 == [i \in 1..Len(d2) |->
                          IF \E k \in 1..Len(b.sections) :
                                /\ SOMEIP_HEADER_LENGTH + b.sections[k].start < i
                                /\ i <= SOMEIP_HEADER_LENGTH + b.sections[k].end
                          THEN d0[i] ELSE d2[i]]
                 r == retain_merge(b.sections, 1,
                                   [kept |-> <<>>,
                                    new_section |-> TpRange(tp.offset, end)])
             IN  [res |-> TpOk,
                  buf |-> [data |-> d3,
                           sections |-> Append(r.kept, r.new_section),
                           end |-> set_end(b, tp.more_segment, end)]]

\* consume_tp that resizes the data before it compares the end of the segment
\* with the recorded end
consume_tp_resize_before_end_check(b, someip_slice, alloc_ok) ==
    LET tp == tp_header(someip_slice)
        pl == payload(someip_slice)
        end == tp.offset + Len(pl)
        required_len == SOMEIP_HEADER_LENGTH + tp.offset + Len(pl)
        d0 == IF Len(b.data) < required_len
              THEN ResizeZero(b.data, required_len)
              ELSE b.data
    IN  IF too_big(tp.offset, Len(pl))
        THEN [res |-> SegmentTooBig(tp.offset, Len(pl), TpMaxPayloadLen), buf |-> b]
        ELSE IF unaligned(tp.more_segment, Len(pl))
        THEN [res |-> UnalignedTpPayloadLen(tp.offset, Len(pl)), buf |-> b]
        ELSE IF Len(b.data) < required_len /\ ~alloc_ok
        THEN [res |-> AllocationFailure(required_len), buf |-> b]
        ELSE IF conflicting_end(b, tp.more_segment, end)
        THEN [res |-> ConflictingEnd(b.end.val, end), buf |-> [b EXCEPT !.data = d0]]
        ELSE LET d1 == copy_header(d0, tp.offset, someip_slice.slice)
                 d2 == Overwrite(d1, SOMEIP_HEADER_LENGTH + tp.offset, pl)
                 r == retain_merge(b.sections, 1,
                                   [kept |-> <<>>,
                                    new_section |-> TpRange(tp.offset, end)])
             IN  [res |-> TpOk,
                  buf |-> [data |-> d2,
                           sections |-> Append(r.kept, r.new_section),
                           end |-> set_end(b, tp.more_segment, end)]]

\* TpBuf::consume_tp; alloc_ok is the outcome of try_reserve, should it be called.
\* Gives the result and the buffer after the call.  The u32 sum offset + len is
\* computed only after too_big has been passed, where it is at most the
\* configured maximum, so it is written without a wrap-around.
consume_tp(b, someip_slice, alloc_ok) ==
    LET tp == tp_header(someip_slice)
        pl == payload(someip_slice)
        end == tp.offset + Len(pl)
        required_len == SOMEIP_HEADER_LENGTH + tp.offset + Len(pl)
    IN  IF too_big(tp.offset, Len(pl))
        THEN [res |-> SegmentTooBig(tp.offset, Len(pl), TpMaxPayloadLen), buf |-> b]
        ELSE IF unaligned(tp.more_segment, Len(pl))
        THEN [res |-> UnalignedTpPayloadLen(tp.offset, Len(pl)), buf |-> b]
        ELSE IF conflicting_end(b, tp.more_segment, end)
        THEN [res |-> ConflictingEnd(b.end.val, end), buf |-> b]
        ELSE IF Len(b.data) < required_len /\ ~alloc_ok
        THEN [res |-> AllocationFailure(required_len), buf |-> b]
        ELSE LET d0 == IF Len(b.data) < required_len
                       THEN ResizeZero(b.data, required_len)
                       ELSE b.data
                 d1 == copy_header(d0, tp.offset, someip_slice.slice)
                 d2 == Overwrite(d1, SOMEIP_HEADER_LENGTH + tp.offset, pl)
                 r == retain_merge(b.sections, 1,
                                   [kept |-> <<>>,
                                    new_section |-> TpRange(tp.offset, end)])
             IN  [res |-> TpOk,
                  buf |-> [data |-> d2,
                           sections |-> Append(r.kept, r.new_section),
                           end |-> set_end(b, tp.more_segment, end)]]

\* TpBuf::is_complete
is_complete(b) ==
    b.end.some /\ 1 = Len(b.sections) /\ 0 = b.sections[1].start

\* try_finalize that writes the length of a message with a TP header
try_finalize_tp_length(b) ==
    IF ~is_complete(b)
    THEN [some |-> FALSE, read |-> ReadErr("", 0), buf |-> b]
    ELSE LET section == b.sections[1]
             len_be == to_be_bytes(section.end + 8 + 4)
             d == Overwrite(b.data, 4, len_be)
         IN  [some |-> TRUE, read |-> from_slice(d),
              buf |-> [b EXCEPT !.data = d]]

\* TpBuf::try_finalize: the returned message (None as [some |-> FALSE]) and the
\* buffer after the call (the length field is written into the buffer).
try_finalize(b) ==
    IF ~is_complete(b)
    THEN [some |-> FALSE, read |-> ReadErr("", 0), buf |-> b]
    ELSE LET section == b.sections[1]
             len_be == to_be_bytes(section.end + 8)
             d == Overwrite(b.data, 4, len_be)
         IN  [some |-> TRUE, read |-> from_slice(d),
              buf |-> [b EXCEPT !.data = d]]

----------------------------------------------------------------------------
(* The TP segments fed to the model, built as the tests build them         *)
(* (tp_buf.rs test::TestPacket, tp_pool.rs tests::TestPacket).             *)

\* test::sequence(start, len): bytes counting up from start
sequence(start, len) == [i \in 1..len |-> (start + i - 1) % 256]

\* A test packet: the payload is sequence(offset + seed, len)
TestPacket(message_id, request_id, offset, more_segments, len, seed) ==
    [message_id |-> message_id, request_id |-> request_id, offset |-> offset,
     more_segments |-> more_segments, len |-> len, seed |-> seed]

NoPacket == TestPacket(0, 0, 0, FALSE, 0, 0)

PacketPayload(p) == sequence(p.offset + p.seed, p.len)

\* TestPacket::to_vec
to_vec(p) ==
    MsgBytes([message_id |-> p.message_id,
              length |-> 8 + 4 + p.len,
              request_id |-> p.request_id,
              interface_version |-> 1,
              message_type |-> MessageTypeNotification,
              return_code |-> 0,
              tp_header |-> SomeTp(p.offset, p.more_segments)],
             PacketPayload(p))

\* SomeipMsgSlice::from_slice(&packet).unwrap()
PacketSlice(p) == from_slice(to_vec(p)).msg

PacketEnd(p) == p.offset + p.len

----------------------------------------------------------------------------
(* A standalone TpBuf driven by consume_tp, try_finalize and clear         *)

\* Most consume_tp calls made on the buffer between two clear() calls
MaxFed == 3

\* The packets fed to the buffer.  The configured maximum is 40 bytes, so a
\* stream is at most [0, 16) [16, 32) [32, 40).
\*   BufAligned: payloads of one or two 16-byte blocks
\*   BufTail:    8-byte payloads (unaligned; legal only as the last segment)
\*   BufAlt:     the same ranges as BufAligned carrying different bytes
\*   BufFar:     an offset beyond the configured maximum
\*   BufEmpty:   segments with an empty payload
BufAligned ==
    {TestPacket(1234, 23, o, ms, l, 0) : o \in {0, 16, 32}, ms \in BOOLEAN, l \in {16, 32}}
BufTail ==
    {TestPacket(1234, 23, o, ms, 8, 0) : o \in {0, 16, 32}, ms \in BOOLEAN}
BufAlt ==
    {TestPacket(1234, 23, o, TRUE, 16, 100) : o \in {0, 16}}
BufFar ==
    {TestPacket(1234, 23, 48, TRUE, 16, 0)}
BufEmpty ==
    {TestPacket(1234, 23, o, ms, 0, 0) : o \in {0, 32}, ms \in BOOLEAN}
BufPackets == BufAligned \cup BufTail \cup BufAlt \cup BufFar \cup BufEmpty

BufCall(op, p) == [op |-> op, packet |-> p]

NoFed == [packets |-> {}, all_ok |-> TRUE, alloc_failed |-> FALSE, n |-> 0]

InitBuf ==
    /\ buf = TpBuf_new
    /\ fed = NoFed
    /\ bcall = BufCall("new", NoPacket)
    /\ bres = TpOk

\* buf.consume_tp(slice)
BufConsume(p, alloc_ok) ==
    /\ sut = "buf"
    /\ fed.n < MaxFed
    /\ \E r \in {consume_tp(buf, PacketSlice(p), alloc_ok)} :
          /\ buf' = r.buf
          /\ bres' = r.res
          /\ fed' = [packets |-> fed.packets \cup {p},
                     all_ok |-> fed.all_ok /\ r.res = TpOk,
                     alloc_failed |-> fed.alloc_failed \/ r.res.tag = "AllocationFailure",
                     n |-> fed.n + 1]
    /\ bcall' = BufCall("consume_tp", p)
    /\ UNCHANGED exceptBuf

\* buf.try_finalize(), where it changes the buffer (it writes the length field)
BufTryFinalize ==
    /\ sut = "buf"
    /\ try_finalize(buf).buf # buf
    /\ buf' = try_finalize(buf).buf
    /\ UNCHANGED <<fed, bcall, bres>>
    /\ UNCHANGED exceptBuf

\* buf.clear()
BufClear ==
    /\ sut = "buf"
    /\ bcall.op # "clear"
    /\ buf' = clear(buf)
    /\ fed' = NoFed
    /\ bcall' = BufCall("clear", NoPacket)
    /\ bres' = TpOk
    /\ UNCHANGED exceptBuf

BufNext ==
    \/ \E p \in BufPackets, alloc_ok \in BOOLEAN : BufConsume(p, alloc_ok)
    \/ BufTryFinalize
    \/ BufClear


----------------------------------------------------------------------------
(* TpPool (tp_pool.rs)                                                     *)

\* The (ChannelId, request id) pairs used as keys of TpPool.active: two keys
\* share the request id, two share the channel id.
PoolKeys == {<<1, 1>>, <<2, 1>>, <<1, 2>>}
Timestamps == {1, 2}

NoEntry == [some |-> FALSE, buf |-> TpBuf_new, ts |-> 0]
Entry(b, timestamp) == [some |-> TRUE, buf |-> b, ts |-> timestamp]

\* TpPool::new
TpPool_new == [active |-> [k \in PoolKeys |-> NoEntry], finished |-> << >>]

\* The results of TpPool::consume: Ok(None), Ok(Some(message)), Err(error)
NoMsg == [tp |-> FALSE, slice |-> << >>]
PoolNone == [tag |-> "None", msg |-> NoMsg, err |-> TpOk]
PoolSome(m) == [tag |-> "Some", msg |-> m, err |-> TpOk]
PoolErr(e) == [tag |-> "Err", msg |-> NoMsg, err |-> e]
\* an unwrap() of None or Err
PoolPanic == [tag |-> "Panic", msg |-> NoMsg, err |-> TpOk]

Front(q) == SubSeq(q, 1, Len(q) - 1)
Last(q) == q[Len(q)]

\* The key with the channel id left out: all channels share the streams of one
\* request id
pool_key_without_channel(id, request_id) == <<1, request_id>>

\* The key of the entry: (id, someip_slice.request_id()) (tp_pool.rs 95)
pool_key(id, request_id) == <<id, request_id>>

\* self.finished.push(buf); self.finished.last_mut().unwrap().try_finalize().unwrap()
\* (tp_pool.rs 104-107, 127-130): the free-list and the result
push_finished(fin, b) ==
    LET f == try_finalize(b)
    IN  [finished |-> Append(fin, f.buf),
         res |-> IF f.some /\ f.read.ok THEN PoolSome(f.read.msg) ELSE PoolPanic]

\* The Occupied arm with the timestamp of the entry left as it was
occupied_keep_timestamp(pool, k, timestamp, someip_slice, alloc_ok) ==
    LET r == consume_tp(pool.active[k].buf, someip_slice, alloc_ok)
    IN  IF r.res # TpOk
        THEN [res |-> PoolErr(r.res), pool |-> pool]
        ELSE IF is_complete(r.buf)
        THEN LET pf == push_finished(pool.finished, r.buf)
             IN  [res |-> pf.res,
                  pool |-> [active |-> [pool.active EXCEPT ![k] = NoEntry],
                            finished |-> pf.finished]]
        ELSE [res |-> PoolNone,
              pool |-> [pool EXCEPT !.active[k] = Entry(r.buf, pool.active[k].ts)]]

\* The Occupied arm with the completed buffer left in the active map
occupied_keep_complete(pool, k, timestamp, someip_slice, alloc_ok) ==
    LET r == consume_tp(pool.active[k].buf, someip_slice, alloc_ok)
    IN  IF r.res # TpOk
        THEN [res |-> PoolErr(r.res), pool |-> pool]
        ELSE IF is_complete(r.buf)
        THEN LET pf == push_finished(pool.finished, r.buf)
             IN  [res |-> pf.res,
                  pool |-> [active |-> [pool.active EXCEPT ![k] = Entry(r.buf, timestamp)],
                            finished |-> pf.finished]]
        ELSE [res |-> PoolNone,
              pool |-> [pool EXCEPT !.active[k] = Entry(r.buf, timestamp)]]

\* TpPool::consume, the Occupied arm (tp_pool.rs 96-111)
occupied(pool, k, timestamp, someip_slice, alloc_ok) ==
    LET r == consume_tp(pool.active[k].buf, someip_slice, alloc_ok)
    IN  IF r.res # TpOk
        THEN [res |-> PoolErr(r.res), pool |-> pool]
        ELSE IF is_complete(r.buf)
        THEN LET pf == push_finished(pool.finished, r.buf)
             IN  [res |-> pf.res,
                  pool |-> [active |-> [pool.active EXCEPT ![k] = NoEntry],
                            finished |-> pf.finished]]
        ELSE [res |-> PoolNone,
              pool |-> [pool EXCEPT !.active[k] = Entry(r.buf, timestamp)]]

\* TpPool::consume, the Vacant arm (tp_pool.rs 112-136).  The buffer popped from
\* the free-list is dropped when consume_tp fails.
vacant(pool, k, timestamp, someip_slice, alloc_ok) ==
    LET popped == Len(pool.finished) > 0
        b0 == IF popped THEN clear(Last(pool.finished)) ELSE TpBuf_new
        fin0 == IF popped THEN Front(pool.finished) ELSE pool.finished
        r == consume_tp(b0, someip_slice, alloc_ok)
    IN  IF r.res # TpOk
        THEN [res |-> PoolErr(r.res), pool |-> [pool EXCEPT !.finished = fin0]]
        ELSE IF is_complete(r.buf)
        THEN LET pf == push_finished(fin0, r.buf)
             IN  [res |-> pf.res, pool |-> [pool EXCEPT !.finished = pf.finished]]
        ELSE [res |-> PoolNone,
              pool |-> [active |-> [pool.active EXCEPT ![k] = Entry(r.buf, timestamp)],
                        finished |-> fin0]]

\* consume that starts a stream for a message without the TP flag as well
consume_without_tp_test(pool, id, timestamp, someip_slice, alloc_ok) ==
    LET k == pool_key(id, msg_request_id(someip_slice))
        tpslice == [tp |-> TRUE, slice |-> someip_slice.slice]
    IN  IF pool.active[k].some
        THEN occupied(pool, k, timestamp, tpslice, alloc_ok)
        ELSE IF someip_slice.tp
        THEN vacant(pool, k, timestamp, tpslice, alloc_ok)
        ELSE [res |-> PoolSome(someip_slice),
              pool |-> [pool EXCEPT !.active[k] = NoEntry]]

\* TpPool::consume (tp_pool.rs 87-141): the result and the pool after the call
consume(pool, id, timestamp, someip_slice, alloc_ok) ==
    IF msg_is_tp(someip_slice)
    THEN LET k == pool_key(id, msg_request_id(someip_slice))
         IN  IF pool.active[k].some
             THEN occupied(pool, k, timestamp, someip_slice, alloc_ok)
             ELSE vacant(pool, k, timestamp, someip_slice, alloc_ok)
    ELSE [res |-> PoolSome(someip_slice), pool |-> pool]

\* TpPool::reserve (tp_pool.rs 64-70): additional new buffers in the free-list
reserve(pool, additional) ==
    [pool EXCEPT !.finished = pool.finished \o [i \in 1..additional |-> TpBuf_new]]

\* The keys retain(f) removes; f is given by the set of timestamps it accepts
retain_removed(pool, f) ==
    {k \in PoolKeys : pool.active[k].some /\ pool.active[k].ts \notin f}

\* The orders in which HashMap::drain can yield the keys of the set ks
DrainOrders(ks) ==
    {o \in [1..Cardinality(ks) -> ks] :
        \A i, j \in 1..Cardinality(ks) : i # j => o[i] # o[j]}

\* retain that pushes the buffers it removes to the front of the free-list
retain_push_front(pool, f, drained) ==
    LET gone == retain_removed(pool, f)
    IN  IF gone # {}
        THEN [active |-> [k \in PoolKeys |-> IF k \in gone THEN NoEntry ELSE pool.active[k]],
              finished |-> [i \in 1..Len(drained) |-> pool.active[drained[i]].buf]
                              \o pool.finished]
        ELSE pool

\* TpPool::retain (tp_pool.rs 144-163).  drained is the order in which
\* HashMap::drain yields the removed entries, which the map does not fix.
retain(pool, f, drained) ==
    LET gone == retain_removed(pool, f)
    IN  IF gone # {}
        THEN [active |-> [k \in PoolKeys |-> IF k \in gone THEN NoEntry ELSE pool.active[k]],
              finished |-> pool.finished
                              \o [i \in 1..Len(drained) |-> pool.active[drained[i]].buf]]
        ELSE pool

----------------------------------------------------------------------------
(* A TpPool driven by consume and retain                                   *)

\* Most calls made on the pool
MaxCalls == 3

\* The numbers of buffers a reserve call is asked to add
PoolReserves == {1}

\* The messages fed to the pool, for each request id:
\*   PoolBlocks:    the 16-byte blocks [0, 16) (first, or only segment) and
\*                  [16, 32) (last segment)
\*   PoolUnaligned: an 8-byte segment that announces more segments
\*   PoolOtherId:   a last segment that carries another SOME/IP message id
\*   PoolPlain:     a message without TP header (written with offset -1)
PoolBlocks(rid) ==
    {TestPacket(1234, rid, 0, TRUE, 16, 0), TestPacket(1234, rid, 0, FALSE, 16, 0),
     TestPacket(1234, rid, 16, FALSE, 16, 0)}
PoolUnaligned(rid) ==
    {TestPacket(1234, rid, 16, TRUE, 8, 0)}
PoolOtherId(rid) ==
    {TestPacket(4321, rid, 16, FALSE, 16, 0)}
PoolPlain(rid) ==
    {TestPacket(1234, rid, -1, FALSE, 8, 0)}
PoolPackets(rid) ==
    PoolBlocks(rid) \cup PoolUnaligned(rid) \cup PoolOtherId(rid) \cup PoolPlain(rid)

IsPlain(p) == p.offset < 0

\* The bytes of a message without TP header (tp_pool.rs 283-295)
plain_to_vec(p) ==
    MsgBytes([message_id |-> p.message_id,
              length |-> 8 + p.len,
              request_id |-> p.request_id,
              interface_version |-> 1,
              message_type |-> MessageTypeNotification,
              return_code |-> 0,
              tp_header |-> NoTp],
             sequence(p.seed, p.len))

PoolSlice(p) == IF IsPlain(p) THEN from_slice(plain_to_vec(p)).msg ELSE PacketSlice(p)

ThePool == [active |-> active, finished |-> finished]

PoolCall(op, k, timestamp, p, f, n) ==
    [op |-> op, key |-> k, ts |-> timestamp, packet |-> p, f |-> f, n |-> n]

\* res: the result of the call; alone: the result the same call has on the pool
\* that was fed the calls of this key alone; ids: the message ids of the
\* segments that make up the returned reassembled message
PoolResult(res, alone, ids) == [res |-> res, alone |-> alone, ids |-> ids]

InitPool ==
    /\ active = TpPool_new.active
    /\ finished = TpPool_new.finished
    /\ shadow = [k \in PoolKeys |-> TpPool_new]
    /\ mids = [k \in PoolKeys |-> {}]
    /\ pcall = PoolCall("new", <<0, 0>>, 0, NoPacket, {}, 0)
    /\ pres = PoolResult(PoolNone, PoolNone, {})

\* pool.consume(id, timestamp, slice) for the key k = (id, request id of p)
PoolConsume(k, timestamp, p, alloc_ok) ==
    /\ sut = "pool"
    /\ pcall.n < MaxCalls
    /\ \E r \in {consume(ThePool, k[1], timestamp, PoolSlice(p), alloc_ok)},
          a \in {consume(shadow[k], k[1], timestamp, PoolSlice(p), alloc_ok)} :
          LET accepted == ~IsPlain(p) /\ r.res.tag \in {"None", "Some"}
              ids == IF accepted THEN mids[k] \cup {p.message_id} ELSE mids[k]
          IN  /\ active' = r.pool.active
              /\ finished' = r.pool.finished
              /\ shadow' = [shadow EXCEPT ![k] = a.pool]
              /\ mids' = [mids EXCEPT ![k] = IF r.pool.active[k].some THEN ids ELSE {}]
              /\ pres' = PoolResult(r.res, a.res,
                                    IF accepted /\ r.res.tag = "Some" THEN ids ELSE {})
    /\ pcall' = PoolCall("consume", k, timestamp, p, {}, pcall.n + 1)
    /\ UNCHANGED exceptPool

\* pool.retain(|t| t \in f)
PoolRetain(f, drained) ==
    /\ sut = "pool"
    /\ pcall.n < MaxCalls
    /\ LET r == retain(ThePool, f, drained)
       IN  /\ active' = r.active
           /\ finished' = r.finished
           /\ shadow' = [k \in PoolKeys |->
                            retain(shadow[k], f,
                                   SelectSeq(drained, LAMBDA x : shadow[k].active[x].some))]
           /\ mids' = [k \in PoolKeys |-> IF r.active[k].some THEN mids[k] ELSE {}]
    /\ pcall' = PoolCall("retain", <<0, 0>>, 0, NoPacket, f, pcall.n + 1)
    /\ pres' = PoolResult(PoolNone, PoolNone, {})
    /\ UNCHANGED exceptPool

\* pool.reserve(additional)
PoolReserve(additional) ==
    /\ sut = "pool"
    /\ pcall.n < MaxCalls
    /\ finished' = reserve(ThePool, additional).finished
    /\ pcall' = PoolCall("reserve", <<0, 0>>, 0, NoPacket, {}, pcall.n + 1)
    /\ pres' = PoolResult(PoolNone, PoolNone, {})
    /\ UNCHANGED <<active, shadow, mids>>
    /\ UNCHANGED exceptPool

PoolNext ==
    \/ \E k \in PoolKeys, timestamp \in Timestamps, alloc_ok \in BOOLEAN :
          \E p \in PoolPackets(k[2]) : PoolConsume(k, timestamp, p, alloc_ok)
    \/ \E f \in SUBSET Timestamps :
          \E drained \in DrainOrders(retain_removed(ThePool, f)) : PoolRetain(f, drained)
    \/ \E additional \in PoolReserves : PoolReserve(additional)

----------------------------------------------------------------------------
(* SomeipMsgsIterator (someip_msgs_iterator.rs)                            *)

\* SomeipMsgsIterator::new
SomeipMsgsIterator_new(slice) == [slice |-> slice]

\* The items of the iterator: None, Some(Ok(message)), Some(Err(error))
IterNone == [some |-> FALSE, read |-> ReadErr("", 0)]
IterSome(read) == [some |-> TRUE, read |-> read]

\* next that steps over the 16 header bytes of a message it rejects
next_skip_header(self) ==
    IF Len(self.slice) # 0
    THEN LET result == from_slice(self.slice)
         IN  [item |-> IterSome(result),
              it |-> [slice |-> IF result.ok
                                THEN Slice(self.slice, Len(result.msg.slice), Len(self.slice))
                                ELSE Slice(self.slice,
                                           Min(SOMEIP_HEADER_LENGTH, Len(self.slice)),
                                           Len(self.slice))]]
    ELSE [item |-> IterNone, it |-> self]

\* next that advances by the length field alone
next_advance_by_length(self) ==
    IF Len(self.slice) # 0
    THEN LET result == from_slice(self.slice)
         IN  [item |-> IterSome(result),
              it |-> [slice |-> IF result.ok
                                THEN Slice(self.slice, msg_length(result.msg), Len(self.slice))
                                ELSE << >>]]
    ELSE [item |-> IterNone, it |-> self]

\* SomeipMsgsIterator::next: the item and the iterator after the call
next(self) ==
    IF Len(self.slice) # 0
    THEN LET result == from_slice(self.slice)
         IN  [item |-> IterSome(result),
              it |-> [slice |-> IF result.ok
                                THEN Slice(self.slice, Len(result.msg.slice), Len(self.slice))
                                ELSE Slice(self.slice, Len(self.slice), Len(self.slice))]]
    ELSE [item |-> IterNone, it |-> self]

----------------------------------------------------------------------------
(* A SomeipMsgsIterator driven by next over a transport payload            *)

\* Most messages in a transport payload
MaxMsgs == 3

\* Most calls of next
MaxNext == 5

\* A message on the wire: its header and its payload
WireMsg(message_id, message_type, tp, pl) ==
    [header |-> [message_id |-> message_id,
                 length |-> SOMEIP_LEN_OFFSET_TO_PAYLOAD
                                + (IF tp.some THEN TP_HEADER_LENGTH ELSE 0) + Len(pl),
                 request_id |-> 23,
                 interface_version |-> 1,
                 message_type |-> message_type,
                 return_code |-> 0,
                 tp_header |-> tp],
     payload |-> pl]

\* The messages of the payloads: one without payload, one with a payload byte,
\* one TP segment
IterMsgs ==
    {WireMsg(1, MessageTypeRequest, NoTp, << >>),
     WireMsg(2, MessageTypeResponse, NoTp, <<7>>),
     WireMsg(3, MessageTypeNotification, SomeTp(16, TRUE), <<9>>)}

\* message.write_raw(&mut buffer); buffer.write(&payload)
WireMsgBytes(m) == MsgBytes(m.header, m.payload)

\* A transport payload: the messages written one after the other, the protocol
\* version byte of message number bad (if not 0) set to 2, and the last cut
\* bytes left off
Wire(msgs, bad, cut) == [msgs |-> msgs, bad |-> bad, cut |-> cut]
NoWire == Wire(<< >>, 0, 0)

Wires ==
    {Wire(msgs, bad, cut) :
        msgs \in UNION {[1..n -> IterMsgs] : n \in 0..MaxMsgs},
        bad \in 0..MaxMsgs, cut \in 0..1}

IterWires == {w \in Wires : w.bad <= Len(w.msgs) /\ (w.cut = 0 \/ Len(w.msgs) > 0)}

RECURSIVE WireConcat(_, _)
WireConcat(w, i) ==
    IF i > Len(w.msgs)
    THEN << >>
    ELSE LET b == WireMsgBytes(w.msgs[i])
         IN  (IF i = w.bad THEN [b EXCEPT ![4 * 3 + 1] = 2] ELSE b) \o WireConcat(w, i + 1)

WireBytes(w) ==
    LET b == WireConcat(w, 1)
    IN  Slice(b, 0, Len(b) - w.cut)

\* The iterator was created on a transport payload
InitIter ==
    /\ wire \in IterWires
    /\ it = SomeipMsgsIterator_new(WireBytes(wire))
    /\ yielded = << >>

\* No iterator is driven
IdleIter ==
    /\ wire = NoWire
    /\ it = SomeipMsgsIterator_new(<< >>)
    /\ yielded = << >>

\* iterator.next()
IterNext ==
    /\ sut = "iter"
    /\ Len(yielded) < MaxNext
    /\ \E r \in {next(it)} :
          /\ it' = r.it
          /\ yielded' = Append(yielded, r.item)
    /\ UNCHANGED wire
    /\ UNCHANGED exceptIter

----------------------------------------------------------------------------
(* A TpHeader created and changed by its constructors and set_offset       *)

\* The offsets given to with_offset and set_offset
TpOffsets == {0, 1, 15, 16, 31, 32, 48, 2147483632}

\* The bytes given to read and read_from_slice: offsets 0, 16 (with all flag
\* bits set), 288, 2147483632 (all bits set), and a source that is too short
TpReadInputs == {<<0, 0, 0, 0>>, <<0, 0, 0, 31>>, <<0, 0, 1, 46>>,
                 <<127, 255, 255, 255>>, <<0, 0, 1>>}

TphCall(op, offset, more, bytes) ==
    [op |-> op, offset |-> offset, more |-> more, bytes |-> bytes]

InitTph ==
    /\ tph = TpHeader_new(FALSE)
    /\ tcall = TphCall("default", 0, FALSE, << >>)
    /\ tres = ValueOk

\* A constructor gave r: tph is the new header if there is one
TphConstructed(r) ==
    /\ tph' = IF r.res.ok THEN r.tp ELSE tph
    /\ tres' = r.res

\* tph = TpHeader::new(more_segment)
TphNew(more_segment) ==
    /\ sut = "tph"
    /\ tph' = TpHeader_new(more_segment)
    /\ tres' = ValueOk
    /\ tcall' = TphCall("new", 0, more_segment, << >>)
    /\ UNCHANGED exceptTph

\* tph = TpHeader::with_offset(offset, more_segment)?
TphWithOffset(offset, more_segment) ==
    /\ sut = "tph"
    /\ TphConstructed(with_offset(offset, more_segment))
    /\ tcall' = TphCall("with_offset", offset, more_segment, << >>)
    /\ UNCHANGED exceptTph

\* tph.set_offset(value)
TphSetOffset(value) ==
    /\ sut = "tph"
    /\ tph' = set_offset(tph, value).tp
    /\ tres' = set_offset(tph, value).res
    /\ tcall' = TphCall("set_offset", value, FALSE, << >>)
    /\ UNCHANGED exceptTph

\* tph = TpHeader::read(&mut reader)?
TphRead(bytes) ==
    /\ sut = "tph"
    /\ TphConstructed(tp_read(bytes))
    /\ tcall' = TphCall("read", 0, FALSE, bytes)
    /\ UNCHANGED exceptTph

\* tph = TpHeader::read_from_slice(slice)?
TphReadFromSlice(bytes) ==
    /\ sut = "tph"
    /\ TphConstructed(tp_read_from_slice(bytes))
    /\ tcall' = TphCall("read_from_slice", 0, FALSE, bytes)
    /\ UNCHANGED exceptTph

TphNext ==
    \/ \E more_segment \in BOOLEAN : TphNew(more_segment)
    \/ \E offset \in TpOffsets, more_segment \in BOOLEAN : TphWithOffset(offset, more_segment)
    \/ \E value \in TpOffsets : TphSetOffset(value)
    \/ \E bytes \in TpReadInputs : TphRead(bytes)
    \/ \E bytes \in TpReadInputs : TphReadFromSlice(bytes)

----------------------------------------------------------------------------
(* The header codec applied to headers and to slices                       *)

\* The length fields of the headers written, and the payload bytes they leave
\* room for (none when a TP header does not fit the length)
CodecLengths == {8, 9, 11, 12, 13, 14}
CodecIds == {0, 2147483647}
CodecTpHeaders == {NoTp, SomeTp(0, FALSE), SomeTp(16, TRUE), SomeTp(2147483632, TRUE)}

CodecHeaders ==
    {[message_id |-> id, length |-> l, request_id |-> 2147483647 - id,
      interface_version |-> v, message_type |-> t, return_code |-> 255 - v,
      tp_header |-> tp] :
        id \in CodecIds, l \in CodecLengths, v \in {0, 255},
        t \in KnownMessageTypes, tp \in CodecTpHeaders}

\* The number of payload bytes that fill the length of h (negative: none does)
PayloadRoom(h) ==
    h.length - SOMEIP_LEN_OFFSET_TO_PAYLOAD
        - (IF h.tp_header.some THEN TP_HEADER_LENGTH ELSE 0)

\* The slices given to from_slice: the first n bytes of a header with length
\* field l, protocol version v and message type byte t, followed by the bytes
\* 100, 101, ...
SliceLengthFields == {0, 7, 8, 9, 11, 12, 13}
SliceLens == {0, 15, 16, 17, 19, 20, 21, 23}
SliceVersions == {1, 2}
SliceTypeBytes == {0, 1, 2, 128, 129, 3, 64, 32, 34, 161, 35}

CodecIn(kind, h, l, n, v, t) ==
    [kind |-> kind, header |-> h, length |-> l, len |-> n, version |-> v, type |-> t,
     id |-> 0]
NoIn == CodecIn("none", NoHeader, 0, 0, 0, 0)

\* The ids given to set_method_or_event_id: the powers of two, the values
\* around the event bit 0x8000 and the greatest ones
SetIds ==
    {0, 1, 2, 4, 8, 16, 32, 64, 128, 255, 256, 512, 1024, 2048, 4096, 8192, 16384,
     32767, 32768, 32769, 49152, 65534, 65535}

\* The headers whose id is set: message ids with and without the event bit and
\* with the service ids 0, 1, 0x1234 and 0x7FFF, with and without a TP header
SetIdHeaders ==
    {[message_id |-> id, length |-> 8 + 4 + 3, request_id |-> 23,
      interface_version |-> 1, message_type |-> MessageTypeNotification,
      return_code |-> 0, tp_header |-> tp] :
        id \in {0, 98303, 305430528, 2147483647}, tp \in {NoTp, SomeTp(16, TRUE)}}

SetIdInputs ==
    {[CodecIn("set_id", h, 0, 0, 0, 0) EXCEPT !.id = id] :
        h \in SetIdHeaders, id \in SetIds}

HeaderInputs == {CodecIn("header", h, 0, 0, 0, 0) : h \in CodecHeaders}
SliceInputs ==
    {CodecIn("slice", NoHeader, l, n, v, t) :
        l \in SliceLengthFields, n \in SliceLens, v \in SliceVersions,
        t \in SliceTypeBytes}

\* The payload written after the header of a header input
InputPayload(c) == sequence(100, Max(PayloadRoom(c.header), 0))

\* The bytes of a slice input
InputSlice(c) ==
    Slice(to_be_bytes(1234) \o to_be_bytes(c.length) \o to_be_bytes(23)
              \o << c.version, 1, c.type, 0 >> \o sequence(100, 8),
          0, c.len)

CodecOut(kind, written, read, slice) ==
    [kind |-> kind, written |-> written, read |-> read, slice |-> slice,
     header |-> NoHeader]
NoOut == CodecOut("none", << >>, HeaderErr("", 0), ReadErr("", 0))

InitCodec ==
    /\ cin \in HeaderInputs \cup SliceInputs \cup SetIdInputs
    /\ cout = NoOut

IdleCodec ==
    /\ cin = NoIn
    /\ cout = NoOut

\* header.write_raw(&mut buffer); SomeipHeader::read(&mut Cursor::new(&buffer));
\* buffer.write(&payload); SomeipMsgSlice::from_slice(&buffer)
CodecWriteRead ==
    /\ sut = "codec"
    /\ cin.kind = "header"
    /\ cout = NoOut
    /\ cout' = CodecOut("write_read", write_raw(cin.header),
                        someip_read(write_raw(cin.header)),
                        from_slice(write_raw(cin.header) \o InputPayload(cin)))
    /\ UNCHANGED cin
    /\ UNCHANGED exceptCodec

\* SomeipMsgSlice::from_slice(slice)
CodecFromSlice ==
    /\ sut = "codec"
    /\ cin.kind = "slice"
    /\ cout = NoOut
    /\ cout' = CodecOut("from_slice", << >>, HeaderErr("", 0), from_slice(InputSlice(cin)))
    /\ UNCHANGED cin
    /\ UNCHANGED exceptCodec

\* header.set_method_or_event_id(id); header.write_raw(&mut buffer);
\* buffer.write(&payload); SomeipMsgSlice::from_slice(&buffer)
CodecSetId ==
    /\ sut = "codec"
    /\ cin.kind = "set_id"
    /\ cout = NoOut
    /\ \E h \in {set_method_or_event_id(cin.header, cin.id)} :
          cout' = [CodecOut("set_method_or_event_id", write_raw(h),
                            someip_read(write_raw(h)),
                            from_slice(write_raw(h) \o InputPayload(cin)))
                     EXCEPT !.header = h]
    /\ UNCHANGED cin
    /\ UNCHANGED exceptCodec

CodecNext == CodecWriteRead \/ CodecFromSlice \/ CodecSetId

----------------------------------------------------------------------------
(* Service discovery: flags, entries, options, header (sd.rs)              *)

SOMEIP_MAX_PAYLOAD_LEN_UDP == 1400
EVENT_ENTRY_INITIAL_DATA_REQUESTED_FLAG == 128
REBOOT_FLAG == 128
UNICAST_FLAG == 64
EXPLICIT_INITIAL_DATA_CONTROL_FLAG == 32
MAX_ENTRIES_LEN == SOMEIP_MAX_PAYLOAD_LEN_UDP - 4 - 4 - 4
ENTRY_LEN == 16
MAX_OPTIONS_LEN == SOMEIP_MAX_PAYLOAD_LEN_UDP - 4 - 4 - 4
DISCARDABLE_FLAG == 128
CONFIGURATION_TYPE == 1
LOAD_BALANCING_LEN == 5
LOAD_BALANCING_TYPE == 2
IPV4_ENDPOINT_LEN == 9
IPV4_ENDPOINT_TYPE == 4
IPV6_ENDPOINT_LEN == 21
IPV6_ENDPOINT_TYPE == 6
IPV4_MULTICAST_LEN == 9
IPV4_MULTICAST_TYPE == 20
IPV6_MULTICAST_LEN == 21
IPV6_MULTICAST_TYPE == 22
IPV4_SD_ENDPOINT_LEN == 9
IPV4_SD_ENDPOINT_TYPE == 36
IPV6_SD_ENDPOINT_LEN == 21
IPV6_SD_ENDPOINT_TYPE == 38
FindService == 0
OfferService == 1
Subscribe == 6
SubscribeAck == 7

\* u16::to_be_bytes
u16_to_be_bytes(v) == << (v \div 256) % 256, v % 256 >>

\* u16::from_be_bytes([a, b])
u16_from_be_bytes(a, b) == a * 256 + b

\* 0 != byte & flag, for a flag of one bit
HasFlag(byte, flag) == (byte \div flag) % 2 = 1

\* The bytes of s from the 0-based position pos on, at most n of them
Take(s, pos, n) == Slice(s, Min(pos, Len(s)), Min(pos + n, Len(s)))

\* SdHeaderFlags
SdHeaderFlags(reboot, unicast, explicit_initial_data_control) ==
    [reboot |-> reboot, unicast |-> unicast,
     explicit_initial_data_control |-> explicit_initial_data_control]

\* SdHeaderFlags::to_bytes
flags_to_bytes(f) ==
    << (IF f.reboot THEN REBOOT_FLAG ELSE 0)
         + (IF f.unicast THEN UNICAST_FLAG ELSE 0)
         + (IF f.explicit_initial_data_control
            THEN EXPLICIT_INITIAL_DATA_CONTROL_FLAG ELSE 0),
       0, 0, 0 >>

\* Results of the value checks, of reads and of writes
SdOk == [ok |-> TRUE, err |-> "", val |-> 0, expected_len |-> 0, option_type |-> 0]
SdErr(e, v) ==
    [ok |-> FALSE, err |-> e, val |-> v, expected_len |-> 0, option_type |-> 0]
SdOptionUnexpectedLen(expected_len, actual_len, option_type) ==
    [ok |-> FALSE, err |-> "SdOptionUnexpectedLen", val |-> actual_len,
     expected_len |-> expected_len, option_type |-> option_type]

\* SdEntry::Service
ServiceEntry(type, index_first_option_run, index_second_option_run, number_of_options_1, number_of_options_2, service_id, instance_id, major_version, ttl, minor_version) ==
    [kind |-> "Service", type |-> type,
     index_first_option_run |-> index_first_option_run,
     index_second_option_run |-> index_second_option_run,
     number_of_options_1 |-> number_of_options_1,
     number_of_options_2 |-> number_of_options_2,
     service_id |-> service_id, instance_id |-> instance_id,
     major_version |-> major_version, ttl |-> ttl, minor_version |-> minor_version,
     initial_data_requested |-> FALSE, counter |-> 0, eventgroup_id |-> 0]

\* SdEntry::Eventgroup
EventgroupEntry(type, index_first_option_run, index_second_option_run, number_of_options_1, number_of_options_2, service_id, instance_id, major_version, ttl, initial_data_requested, counter, eventgroup_id) ==
    [kind |-> "Eventgroup", type |-> type,
     index_first_option_run |-> index_first_option_run,
     index_second_option_run |-> index_second_option_run,
     number_of_options_1 |-> number_of_options_1,
     number_of_options_2 |-> number_of_options_2,
     service_id |-> service_id, instance_id |-> instance_id,
     major_version |-> major_version, ttl |-> ttl, minor_version |-> 0,
     initial_data_requested |-> initial_data_requested, counter |-> counter,
     eventgroup_id |-> eventgroup_id]

NoSdEntry == ServiceEntry(0, 0, 0, 0, 0, 0, 0, 0, 0, 0)

\* SdEntry::new_service_entry: the check of the values
new_service_entry(e) ==
    IF e.ttl > 16777215 THEN SdErr("TtlTooLarge", e.ttl)
    ELSE IF e.number_of_options_1 > 15
    THEN SdErr("NumberOfOption1TooLarge", e.number_of_options_1)
    ELSE IF e.number_of_options_2 > 15
    THEN SdErr("NumberOfOption2TooLarge", e.number_of_options_2)
    ELSE SdOk

\* SdEntry::new_eventgroup: the check of the values
new_eventgroup(e) ==
    IF e.counter > 15 THEN SdErr("CounterTooLarge", e.counter)
    ELSE IF e.ttl > 16777215 THEN SdErr("TtlTooLarge", e.ttl)
    ELSE IF e.number_of_options_1 > 15
    THEN SdErr("NumberOfOption1TooLarge", e.number_of_options_1)
    ELSE IF e.number_of_options_2 > 15
    THEN SdErr("NumberOfOption2TooLarge", e.number_of_options_2)
    ELSE SdOk

\* SdEntry::to_bytes
entry_to_bytes(e) ==
    << e.type, e.index_first_option_run, e.index_second_option_run,
       ((e.number_of_options_1 * 16) % 256) + (e.number_of_options_2 % 16) >>
        \o u16_to_be_bytes(e.service_id) \o u16_to_be_bytes(e.instance_id)
        \o << e.major_version >> \o Slice(to_be_bytes(e.ttl), 1, 4)
        \o (IF e.kind = "Eventgroup"
            THEN << 0,
                    (IF e.initial_data_requested
                     THEN EVENT_ENTRY_INITIAL_DATA_REQUESTED_FLAG ELSE 0)
                        + (e.counter % 16) >>
                    \o u16_to_be_bytes(e.eventgroup_id)
            ELSE to_be_bytes(e.minor_version))

EntryOk(e) == [res |-> SdOk, entry |-> e]
EntryErr(e, v) == [res |-> SdErr(e, v), entry |-> NoSdEntry]

\* SdEntry::new_service_entry with the entry it gives: a holds the arguments
service_entry(type, a) ==
    LET e == ServiceEntry(type, a.index_first_option_run, a.index_second_option_run,
                          a.number_of_options_1, a.number_of_options_2, a.service_id,
                          a.instance_id, a.major_version, a.ttl, a.minor_version)
    IN  IF new_service_entry(e).ok THEN EntryOk(e)
        ELSE [res |-> new_service_entry(e), entry |-> NoSdEntry]

\* SdEntry::new_eventgroup with the entry it gives
eventgroup_entry(type, a) ==
    LET e == EventgroupEntry(type, a.index_first_option_run,
                             a.index_second_option_run, a.number_of_options_1,
                             a.number_of_options_2, a.service_id, a.instance_id,
                             a.major_version, a.ttl, a.initial_data_requested,
                             a.counter, a.eventgroup_id)
    IN  IF new_eventgroup(e).ok THEN EntryOk(e)
        ELSE [res |-> new_eventgroup(e), entry |-> NoSdEntry]

\* SdEntry::new_find_service_entry
new_find_service_entry(a) ==
    IF a.ttl = 0 THEN EntryErr("TtlZeroIndicatesStopOffering", 0)
    ELSE service_entry(FindService, a)

\* new_offer_service_entry without the check of the zero ttl
new_offer_service_entry_any_ttl(a) == service_entry(OfferService, a)

\* SdEntry::new_offer_service_entry
new_offer_service_entry(a) ==
    IF a.ttl = 0 THEN EntryErr("TtlZeroIndicatesStopOffering", 0)
    ELSE service_entry(OfferService, a)

\* SdEntry::new_stop_offer_service_entry: it has no ttl argument
new_stop_offer_service_entry(a) == service_entry(OfferService, [a EXCEPT !.ttl = 0])

\* SdEntry::read_service
read_service(type, b) ==
    EntryOk(ServiceEntry(type, b[2], b[3], b[4] \div 16, b[4] % 16,
                         u16_from_be_bytes(b[5], b[6]), u16_from_be_bytes(b[7], b[8]),
                         b[9], get_unchecked_be_u32(<< 0, b[10], b[11], b[12] >>, 0),
                         get_unchecked_be_u32(b, 12)))

\* SdEntry::read_entry_group
read_entry_group(type, b) ==
    EntryOk(EventgroupEntry(type, b[2], b[3], b[4] \div 16, b[4] % 16,
                            u16_from_be_bytes(b[5], b[6]), u16_from_be_bytes(b[7], b[8]),
                            b[9], get_unchecked_be_u32(<< 0, b[10], b[11], b[12] >>, 0),
                            HasFlag(b[14], EVENT_ENTRY_INITIAL_DATA_REQUESTED_FLAG),
                            b[14] % 16, u16_from_be_bytes(b[15], b[16])))

\* SdEntry::read from a reader that holds s and stands at the 0-based
\* position pos
entry_read(s, pos) ==
    IF Len(s) < pos + ENTRY_LEN
    THEN EntryErr("Io", Len(s))
    ELSE LET entry_bytes == Slice(s, pos, pos + ENTRY_LEN)
             type_raw == entry_bytes[1]
         IN  IF type_raw \in {FindService, OfferService}
             THEN read_service(type_raw, entry_bytes)
             ELSE IF type_raw \in {Subscribe, SubscribeAck}
             THEN read_entry_group(type_raw, entry_bytes)
             ELSE EntryErr("UnknownSdServiceEntryType", type_raw)

\* TransportProtocol
Tcp == [kind |-> "Tcp", n |-> 0]
Udp == [kind |-> "Udp", n |-> 0]
Generic(n) == [kind |-> "Generic", n |-> n]

\* impl From<TransportProtocol> for u8
tp_into_u8(tp) ==
    IF tp.kind = "Tcp" THEN 6 ELSE IF tp.kind = "Udp" THEN 17 ELSE tp.n

\* The match on transport_protocol_raw without the arms of Tcp and Udp
tp_from_raw_generic_only(raw) == Generic(raw)

\* The match on transport_protocol_raw in read_ip4_option / read_ip6_option
tp_from_raw(raw) ==
    IF raw = 6 THEN Tcp ELSE IF raw = 17 THEN Udp ELSE Generic(raw)

\* SdOption: one record shape for the nine variants
NoSdOption ==
    [kind |-> "None", discardable |-> FALSE, configuration_string |-> << >>,
     priority |-> 0, weight |-> 0, address |-> << >>, transport_protocol |-> Tcp,
     transport_protocol_number |-> 0, length |-> 0, option_type |-> 0]

Configuration(discardable, configuration_string) ==
    [NoSdOption EXCEPT !.kind = "Configuration", !.discardable = discardable,
                       !.configuration_string = configuration_string]

LoadBalancing(discardable, priority, weight) ==
    [NoSdOption EXCEPT !.kind = "LoadBalancing", !.discardable = discardable,
                       !.priority = priority, !.weight = weight]

\* Ipv4Endpoint, Ipv6Endpoint, Ipv4Multicast, Ipv6Multicast, Ipv4SdEndpoint,
\* Ipv6SdEndpoint
IpOption(kind, address, transport_protocol, transport_protocol_number) ==
    [NoSdOption EXCEPT !.kind = kind, !.address = address,
                       !.transport_protocol = transport_protocol,
                       !.transport_protocol_number = transport_protocol_number]

UnknownDiscardable(length, option_type) ==
    [NoSdOption EXCEPT !.kind = "UnknownDiscardable", !.length = length,
                       !.option_type = option_type]

Ipv4Kinds == {"Ipv4Endpoint", "Ipv4Multicast", "Ipv4SdEndpoint"}
Ipv6Kinds == {"Ipv6Endpoint", "Ipv6Multicast", "Ipv6SdEndpoint"}

\* The length constant of the options of fixed length
option_len(kind) ==
    CASE kind = "LoadBalancing" -> LOAD_BALANCING_LEN
      [] kind = "Ipv4Endpoint" -> IPV4_ENDPOINT_LEN
      [] kind = "Ipv6Endpoint" -> IPV6_ENDPOINT_LEN
      [] kind = "Ipv4Multicast" -> IPV4_MULTICAST_LEN
      [] kind = "Ipv6Multicast" -> IPV6_MULTICAST_LEN
      [] kind = "Ipv4SdEndpoint" -> IPV4_SD_ENDPOINT_LEN
      [] kind = "Ipv6SdEndpoint" -> IPV6_SD_ENDPOINT_LEN

\* The type constant of the known options
option_type_of(kind) ==
    CASE kind = "Configuration" -> CONFIGURATION_TYPE
      [] kind = "LoadBalancing" -> LOAD_BALANCING_TYPE
      [] kind = "Ipv4Endpoint" -> IPV4_ENDPOINT_TYPE
      [] kind = "Ipv6Endpoint" -> IPV6_ENDPOINT_TYPE
      [] kind = "Ipv4Multicast" -> IPV4_MULTICAST_TYPE
      [] kind = "Ipv6Multicast" -> IPV6_MULTICAST_TYPE
      [] kind = "Ipv4SdEndpoint" -> IPV4_SD_ENDPOINT_TYPE
      [] kind = "Ipv6SdEndpoint" -> IPV6_SD_ENDPOINT_TYPE

\* The option kind of a known type byte
option_kind_of(type_raw) ==
    CHOOSE kind \in {"Configuration", "LoadBalancing"} \cup Ipv4Kinds \cup Ipv6Kinds :
        option_type_of(kind) = type_raw

KnownOptionTypes ==
    {option_type_of(kind) :
        kind \in {"Configuration", "LoadBalancing"} \cup Ipv4Kinds \cup Ipv6Kinds}

\* SdOption::header_len
option_header_len(o) ==
    3 + (IF o.kind = "Configuration" THEN 1 + Len(o.configuration_string)
         ELSE IF o.kind = "UnknownDiscardable" THEN o.length
         ELSE option_len(o.kind))

OptionReadOk(read_bytes, o, pos) ==
    [res |-> SdOk, read_bytes |-> read_bytes, option |-> o, pos |-> pos]
OptionReadErr(r) ==
    [res |-> r, read_bytes |-> 0, option |-> NoSdOption, pos |-> 0]

\* A panic of the build with overflow checks (the default of a debug build)
SdPanic(v) == SdErr("Panic", v)

\* Ok((3 + length, option)), the sum being a u16: beyond 0xFFFF it panics with
\* overflow checks and wraps around without them
option_ok(length, o, pos, overflow_checks) ==
    IF 3 + length > 65535
    THEN IF overflow_checks THEN OptionReadErr(SdPanic(length))
         ELSE OptionReadOk((3 + length) % 65536, o, pos)
    ELSE OptionReadOk(3 + length, o, pos)

\* SdOption::read_ip4_option / read_ip6_option, on the bytes read (8 or 20)
read_ip_option(kind, b) ==
    IpOption(kind, Slice(b, 0, Len(b) - 4), tp_from_raw(b[Len(b) - 2]),
             u16_from_be_bytes(b[Len(b) - 1], b[Len(b)]))

\* The arm of the unknown option types without the test of the discardable flag
read_unknown_as_discardable(s, pos, length, option_type, discardable, overflow_checks) ==
    LET at == IF length > 2 THEN pos + 4 + (length - 2) ELSE pos + 4
    IN  IF length > 1 /\ Len(s) < at + 1
        THEN OptionReadErr(SdErr("Io", Len(s)))
        ELSE option_ok(length, UnknownDiscardable(length, option_type),
                       IF length > 1 THEN at + 1 ELSE at, overflow_checks)

\* SdOption::read, the arm of the unknown option types: seek past the payload
\* but one byte (a seek past the end is no error), read the last byte
read_unknown(s, pos, length, option_type, discardable, overflow_checks) ==
    IF discardable
    THEN LET at == IF length > 2 THEN pos + 4 + (length - 2) ELSE pos + 4
         IN  IF length > 1 /\ Len(s) < at + 1
             THEN OptionReadErr(SdErr("Io", Len(s)))
             ELSE option_ok(length, UnknownDiscardable(length, option_type),
                            IF length > 1 THEN at + 1 ELSE at, overflow_checks)
    ELSE OptionReadErr(SdErr("UnknownSdOptionType", option_type))

\* SdOption::read from a reader that holds s and stands at the 0-based
\* position pos, in a build with or without overflow checks
option_read(s, pos, overflow_checks) ==
    IF Len(s) < pos + 4
    THEN OptionReadErr(SdErr("Io", Len(s)))
    ELSE LET length == u16_from_be_bytes(s[pos + 1], s[pos + 2])
             type_raw == s[pos + 3]
             discardable == HasFlag(s[pos + 4], DISCARDABLE_FLAG)
         IN  IF length < 1
             THEN OptionReadErr(SdErr("SdOptionLengthZero", 0))
             ELSE IF type_raw = CONFIGURATION_TYPE
             THEN LET configuration_string == Take(s, pos + 4, length - 1)
                  IN  option_ok(length,
                                Configuration(discardable, configuration_string),
                                pos + 4 + Len(configuration_string), overflow_checks)
             ELSE IF type_raw = LOAD_BALANCING_TYPE
             THEN IF LOAD_BALANCING_LEN # length
                  THEN OptionReadErr(
                           SdOptionUnexpectedLen(LOAD_BALANCING_LEN, length, type_raw))
                  ELSE IF Len(s) < pos + 4 + 4
                  THEN OptionReadErr(SdErr("Io", Len(s)))
                  ELSE option_ok(length,
                                 LoadBalancing(discardable,
                                               u16_from_be_bytes(s[pos + 5], s[pos + 6]),
                                               u16_from_be_bytes(s[pos + 7], s[pos + 8])),
                                 pos + 4 + 4, overflow_checks)
             ELSE IF type_raw \in KnownOptionTypes
             THEN LET kind == option_kind_of(type_raw)
                      n == option_len(kind) - 1
                  IN  IF option_len(kind) # length
                      THEN OptionReadErr(
                               SdOptionUnexpectedLen(option_len(kind), length, type_raw))
                      ELSE IF Len(s) < pos + 4 + n
                      THEN OptionReadErr(SdErr("Io", Len(s)))
                      ELSE option_ok(length,
                                     read_ip_option(kind, Slice(s, pos + 4, pos + 4 + n)),
                                     pos + 4 + n, overflow_checks)
             ELSE read_unknown(s, pos, length, type_raw, discardable, overflow_checks)

WriteOk(out) == [res |-> SdOk, out |-> out]
WriteErr(r, out) == [res |-> r, out |-> out]

\* write_ipv4 / write_ipv6 in SdOption::write: the bytes written
write_ip(len, t, addr, tp, port) ==
    u16_to_be_bytes(len) \o << t, 0 >> \o addr
        \o << 0, tp_into_u8(tp) >> \o u16_to_be_bytes(port)

\* SdOption::write: the result and the bytes the writer holds after it
option_write(o, writer) ==
    IF o.kind = "Configuration"
    THEN WriteOk(writer
                   \o u16_to_be_bytes((1 + Len(o.configuration_string)) % 65536)
                   \o << CONFIGURATION_TYPE,
                         IF o.discardable THEN DISCARDABLE_FLAG ELSE 0 >>
                   \o o.configuration_string)
    ELSE IF o.kind = "LoadBalancing"
    THEN WriteOk(writer
                   \o u16_to_be_bytes(LOAD_BALANCING_LEN)
                   \o << LOAD_BALANCING_TYPE,
                         IF o.discardable THEN DISCARDABLE_FLAG ELSE 0 >>
                   \o u16_to_be_bytes(o.priority) \o u16_to_be_bytes(o.weight))
    ELSE IF o.kind = "UnknownDiscardable"
    THEN WriteErr(SdErr("SdUnknownDiscardableOption", o.option_type), writer)
    ELSE WriteOk(writer \o write_ip(option_len(o.kind), option_type_of(o.kind), o.address,
                                     o.transport_protocol, o.transport_protocol_number))

\* append_ip4 / append_ip6 in SdOption::append_bytes_to_vec: the bytes appended
append_ip(address, transport_protocol, transport_protocol_number) ==
    address \o << 0, tp_into_u8(transport_protocol) >>
        \o u16_to_be_bytes(transport_protocol_number)

\* SdOption::append_bytes_to_vec: the result and the buffer after it
append_bytes_to_vec(o, buffer) ==
    IF o.kind = "Configuration"
    THEN WriteOk(buffer
                   \o u16_to_be_bytes((1 + Len(o.configuration_string)) % 65536)
                   \o << CONFIGURATION_TYPE >>
                   \o << IF o.discardable THEN DISCARDABLE_FLAG ELSE 0 >>
                   \o o.configuration_string)
    ELSE IF o.kind = "LoadBalancing"
    THEN WriteOk(buffer
                   \o u16_to_be_bytes(LOAD_BALANCING_LEN)
                   \o << LOAD_BALANCING_TYPE >>
                   \o << IF o.discardable THEN DISCARDABLE_FLAG ELSE 0 >>
                   \o u16_to_be_bytes(o.priority) \o u16_to_be_bytes(o.weight))
    ELSE IF o.kind = "UnknownDiscardable"
    THEN WriteErr(SdErr("SdUnknownDiscardableOption", o.option_type), buffer)
    ELSE WriteOk(buffer
                   \o u16_to_be_bytes(option_len(o.kind))
                   \o << option_type_of(o.kind) >> \o << 0 >>
                   \o append_ip(o.address, o.transport_protocol,
                                o.transport_protocol_number))

\* SdHeader
SdHeader(flags, entries, options) ==
    [flags |-> flags, entries |-> entries, options |-> options]

\* SdHeader::default
SdHeader_default == SdHeader(SdHeaderFlags(FALSE, TRUE, TRUE), << >>, << >>)

\* The sum of header_len() over the options
RECURSIVE options_len(_)
options_len(options) ==
    IF options = << >> THEN 0
    ELSE option_header_len(Head(options)) + options_len(Tail(options))

\* SdHeader::header_len
header_len(h) == 4 * 3 + Len(h.entries) * ENTRY_LEN + options_len(h.options)

\* for e in &self.entries { bytes.extend_from_slice(&e.to_bytes()) }
extend_entries(bytes, entries) ==
    bytes \o [i \in 1..(Len(entries) * ENTRY_LEN) |->
                 entry_to_bytes(entries[((i - 1) \div ENTRY_LEN) + 1])[((i - 1) % ENTRY_LEN) + 1]]

\* for o in &self.options { o.append_bytes_to_vec(&mut bytes)? }
RECURSIVE append_options(_, _)
append_options(bytes, options) ==
    IF options = << >> THEN WriteOk(bytes)
    ELSE LET r == append_bytes_to_vec(Head(options), bytes)
         IN  IF r.res.ok THEN append_options(r.out, Tail(options)) ELSE r

\* SdHeader::to_bytes_vec: the result and, on success, the bytes
to_bytes_vec(h) ==
    LET entries_len == Len(h.entries) * ENTRY_LEN
        r == append_options(
                 extend_entries(flags_to_bytes(h.flags) \o to_be_bytes(entries_len),
                                h.entries)
                     \o to_be_bytes(options_len(h.options)),
                 h.options)
    IN  IF r.res.ok THEN r ELSE WriteErr(r.res, << >>)

\* SdHeader::write that writes the bytes made before the failure
sd_write_partial(h, writer) ==
    LET entries_len == Len(h.entries) * ENTRY_LEN
        r == append_options(
                 extend_entries(flags_to_bytes(h.flags) \o to_be_bytes(entries_len),
                                h.entries)
                     \o to_be_bytes(options_len(h.options)),
                 h.options)
    IN  WriteErr(r.res, writer \o r.out)

\* SdHeader::write: the result and the bytes the writer holds after it
sd_write(h, writer) ==
    LET r == to_bytes_vec(h)
    IN  IF r.res.ok THEN WriteOk(writer \o r.out) ELSE WriteErr(r.res, writer)

\* SdHeader::write_to_slice: the result and the slice after it
sd_write_to_slice(h, slice) ==
    LET r == to_bytes_vec(h)
    IN  IF ~r.res.ok THEN WriteErr(r.res, slice)
        ELSE IF Len(slice) < Len(r.out)
        THEN WriteErr(SdErr("UnexpectedEndOfSlice", Len(r.out)), slice)
        ELSE WriteOk(Overwrite(slice, 0, r.out))

\* options_to is the position up to which whole options were read
SdReadOk(h) == [res |-> SdOk, hdr |-> h, options_to |-> 0]
SdReadErr(r) == [res |-> r, hdr |-> SdHeader_default, options_to |-> 0]

\* for _ in 0..num_entries { entries.push(SdEntry::read(reader)?) }: the
\* entries read, or the error of the first entry that fails
read_entries(s, pos, num_entries) ==
    LET failing == {k \in 1..num_entries :
                       ~entry_read(s, pos + (k - 1) * ENTRY_LEN).res.ok}
        first == CHOOSE k \in failing : \A j \in failing : k <= j
    IN  IF failing = {}
        THEN [res |-> SdOk,
              entries |-> [k \in 1..num_entries |->
                              entry_read(s, pos + (k - 1) * ENTRY_LEN).entry],
              pos |-> pos + num_entries * ENTRY_LEN]
        ELSE [res |-> entry_read(s, pos + (first - 1) * ENTRY_LEN).res,
              entries |-> << >>, pos |-> pos]

\* The loop over the options once options_length has wrapped around: the
\* count is then above 0xFFFF_0000 and no reader of the model is that long, so
\* options are read on until a read fails
RECURSIVE read_options_wrapped(_, _, _)
read_options_wrapped(s, pos, overflow_checks) ==
    LET r == option_read(s, pos, overflow_checks)
    IN  IF ~r.res.ok THEN [res |-> r.res, options |-> << >>, pos |-> pos]
        ELSE read_options_wrapped(s, r.pos, overflow_checks)

\* while options_length > 0 { .. options_length -= read_bytes as u32 }: the
\* subtraction overflows when an option is longer than what is left of the
\* array, a panic with overflow checks; without them the count wraps around
\* and the loop reads on.  pos is the position up to which the reader has
\* read whole options.
RECURSIVE read_options(_, _, _, _, _)
read_options(s, pos, options_length, options, overflow_checks) ==
    IF options_length = 0 THEN [res |-> SdOk, options |-> options, pos |-> pos]
    ELSE LET r == option_read(s, pos, overflow_checks)
         IN  IF ~r.res.ok THEN [res |-> r.res, options |-> << >>, pos |-> pos]
             ELSE IF r.read_bytes > options_length
             THEN IF overflow_checks
                  THEN [res |-> SdPanic(r.read_bytes), options |-> << >>, pos |-> r.pos]
                  ELSE read_options_wrapped(s, r.pos, overflow_checks)
             ELSE read_options(s, r.pos, options_length - r.read_bytes,
                               Append(options, r.option), overflow_checks)

\* SdHeader::read from a reader that holds the bytes s
sd_read(s, overflow_checks) ==
    IF Len(s) < 1 + 3 + 4
    THEN SdReadErr(SdErr("Io", Len(s)))
    ELSE LET length_entries == get_unchecked_be_u32(s, 4)
         IN  IF length_entries > MAX_ENTRIES_LEN
             THEN SdReadErr(SdErr("SdEntriesArrayLengthTooLarge", length_entries))
             ELSE LET e == read_entries(s, 8, length_entries \div ENTRY_LEN)
                  IN  IF ~e.res.ok THEN SdReadErr(e.res)
                      ELSE IF Len(s) < e.pos + 4
                      THEN SdReadErr(SdErr("Io", Len(s)))
                      ELSE LET options_length == get_unchecked_be_u32(s, e.pos)
                           IN  IF options_length > MAX_OPTIONS_LEN
                               THEN SdReadErr(SdErr("SdOptionsArrayLengthTooLarge",
                                                    options_length))
                               ELSE LET o == read_options(s, e.pos + 4, options_length,
                                                          << >>, overflow_checks)
                                    IN  IF ~o.res.ok
                                        THEN [SdReadErr(o.res)
                                                EXCEPT !.options_to = o.pos]
                                        ELSE [SdReadOk(
                                                 SdHeader(
                                                     SdHeaderFlags(
                                                         HasFlag(s[1], REBOOT_FLAG),
                                                         HasFlag(s[1], UNICAST_FLAG),
                                                         HasFlag(s[1],
                                                             EXPLICIT_INITIAL_DATA_CONTROL_FLAG)),
                                                     e.entries, o.options))
                                                EXCEPT !.options_to = o.pos]

----------------------------------------------------------------------------
(* Service discovery headers and options written and read                   *)

\* The longest list of options on the wire
MaxWireOptions == 3

Repeat(e, n) == [i \in 1..n |-> e]

\* Entries as the constructors give them, with the extreme values of the fields
EntryFind == ServiceEntry(FindService, 1, 2, 15, 0, 258, 65535, 255, 16777215, 2147483647)
EntryOffer == ServiceEntry(OfferService, 0, 0, 0, 0, 258, 772, 1, 60, 0)
EntryStopOffer == ServiceEntry(OfferService, 0, 0, 1, 15, 1, 2, 0, 0, 1)
EntrySubscribe ==
    EventgroupEntry(Subscribe, 3, 4, 15, 15, 65535, 0, 255, 16777215, TRUE, 15, 65535)
EntrySubscribeAck == EventgroupEntry(SubscribeAck, 0, 0, 0, 1, 1, 1, 1, 0, FALSE, 0, 1)
\* An entry no constructor accepts (the fields of the variants are public)
EntryUnchecked == ServiceEntry(OfferService, 0, 0, 0, 16, 1, 2, 0, 60, 1)

SdEntryLists ==
    { << >>, << EntryOffer >>, << EntryFind, EntrySubscribe >>,
      << EntrySubscribeAck, EntryStopOffer, EntryFind >>, << EntryUnchecked >>,
      Repeat(EntryOffer, MAX_ENTRIES_LEN \div ENTRY_LEN),
      Repeat(EntryOffer, MAX_ENTRIES_LEN \div ENTRY_LEN + 1) }

\* Options of the eight known types
SdKnownOptions ==
    { Configuration(TRUE, << 1, 2, 3 >>), Configuration(FALSE, << >>),
      LoadBalancing(TRUE, 65535, 1), LoadBalancing(FALSE, 0, 0),
      IpOption("Ipv4Endpoint", << 192, 168, 0, 1 >>, Udp, 30500),
      IpOption("Ipv6Endpoint", sequence(1, 16), Tcp, 65535),
      IpOption("Ipv4Multicast", << 224, 0, 0, 1 >>, Generic(18), 0),
      IpOption("Ipv6Multicast", sequence(240, 16), Generic(255), 1),
      IpOption("Ipv4SdEndpoint", << 0, 0, 0, 0 >>, Generic(0), 1),
      IpOption("Ipv6SdEndpoint", sequence(100, 16), Udp, 30490) }

\* Options whose transport protocol is Generic with the number of TCP or UDP
SdGenericOptions ==
    { IpOption("Ipv4Endpoint", << 192, 168, 0, 1 >>, Generic(6), 30500),
      IpOption("Ipv6SdEndpoint", sequence(100, 16), Generic(17), 30490) }

\* Placeholders as SdOption::read gives them
SdPlaceholders == { UnknownDiscardable(1, 255), UnknownDiscardable(3, 0) }

\* Configuration options that fill the options array to its bound and over it
SdLongOptions ==
    { Configuration(FALSE, sequence(0, MAX_OPTIONS_LEN - 4)),
      Configuration(TRUE, sequence(0, MAX_OPTIONS_LEN - 3)) }

SdOptions == SdKnownOptions \cup SdGenericOptions \cup SdPlaceholders

SdOptionLists ==
    { << >> } \cup { << o >> : o \in SdOptions \cup SdLongOptions }
        \cup { << a, b >> :
                 a \in { Configuration(TRUE, << 1, 2, 3 >>),
                         IpOption("Ipv6Endpoint", sequence(1, 16), Tcp, 65535) },
                 b \in { LoadBalancing(TRUE, 65535, 1),
                         IpOption("Ipv4Multicast", << 224, 0, 0, 1 >>, Generic(18), 0),
                         IpOption("Ipv4Endpoint", << 192, 168, 0, 1 >>, Generic(6), 30500),
                         UnknownDiscardable(3, 0) } }
        \cup { << UnknownDiscardable(1, 255), Configuration(FALSE, << >>) >>,
               << LoadBalancing(FALSE, 0, 0), UnknownDiscardable(3, 0),
                  UnknownDiscardable(1, 255) >> }

SdFlagSets ==
    { SdHeaderFlags(FALSE, TRUE, TRUE), SdHeaderFlags(TRUE, FALSE, FALSE),
      SdHeaderFlags(FALSE, FALSE, TRUE), SdHeaderFlags(TRUE, TRUE, FALSE) }

SdHeaders ==
    { SdHeader(f, es, os) : f \in SdFlagSets, es \in SdEntryLists, os \in SdOptionLists }

\* An option on the wire: a known option as it is written, or length, type,
\* flags byte and length - 1 payload bytes of an option of another type
WireKnown(o) ==
    [known |-> TRUE, option |-> o, length |-> 0, option_type |-> 0, flags |-> 0,
     have |-> 0]
\* The four bytes of an option and the first have bytes of what follows them
WireCut(length, option_type, flags, have) ==
    [known |-> FALSE, option |-> NoSdOption, length |-> length,
     option_type |-> option_type, flags |-> flags, have |-> have]
WireRaw(length, option_type, flags) == WireCut(length, option_type, flags, length - 1)

WireItems ==
    { WireKnown(IpOption("Ipv4Endpoint", << 192, 168, 0, 1 >>, Udp, 30500)),
      WireKnown(Configuration(TRUE, << 1, 2, 3 >>)),
      WireRaw(1, 255, 128), WireRaw(5, 3, 255), WireRaw(2, 0, 128),
      WireRaw(1, 255, 0), WireRaw(3, 37, 127) }

WireItemBytes(w) ==
    IF w.known THEN append_bytes_to_vec(w.option, << >>).out
    ELSE u16_to_be_bytes(w.length) \o << w.option_type, w.flags >>
             \o sequence(w.option_type, w.have)

RECURSIVE WireItemsBytes(_)
WireItemsBytes(items) ==
    IF items = << >> THEN << >>
    ELSE WireItemBytes(Head(items)) \o WireItemsBytes(Tail(items))

WireLists == UNION { [1..n -> WireItems] : n \in 0..MaxWireOptions }

\* The bytes of a header with one entry and the options of the list
WireOf(items) ==
    flags_to_bytes(SdHeaderFlags(TRUE, TRUE, TRUE)) \o to_be_bytes(ENTRY_LEN)
        \o entry_to_bytes(EntrySubscribe)
        \o to_be_bytes(Len(WireItemsBytes(items))) \o WireItemsBytes(items)

\* The bytes of a header with one entry, an options array declared to be
\* declared bytes long, and the options of the list
WireDeclared(items, declared) ==
    flags_to_bytes(SdHeaderFlags(TRUE, TRUE, TRUE)) \o to_be_bytes(ENTRY_LEN)
        \o entry_to_bytes(EntrySubscribe)
        \o to_be_bytes(declared) \o WireItemsBytes(items)

\* Options the reader ends in: a configuration string of which one byte of
\* four is there, one of the greatest length with no byte, an unknown
\* discardable option with two bytes of four
CutItems == { WireCut(5, 1, 0, 1), WireCut(65535, 1, 128, 0), WireCut(5, 3, 255, 2) }

\* Lists of one or two options, the last one whole or cut
CutLists ==
    LET last == { WireKnown(o) : o \in SdKnownOptions }
                    \cup { WireRaw(5, 3, 255), WireRaw(1, 255, 128) } \cup CutItems
        first == { WireKnown(LoadBalancing(TRUE, 65535, 1)),
                   WireKnown(Configuration(TRUE, << 1, 2, 3 >>)),
                   WireKnown(IpOption("Ipv4Endpoint", << 192, 168, 0, 1 >>, Udp, 30500)),
                   WireRaw(2, 0, 128) }
    IN  { << l >> : l \in last } \cup { << f, l >> : f \in first, l \in last }

\* The lengths the options array is declared with
DeclaredLengths == {1, 4, 7, 8, 12, 15, 20, 24}

SdIn(kind, header, option, items) ==
    [kind |-> kind, header |-> header, option |-> option, items |-> items,
     args |-> NoSdEntry, declared |-> 0]
NoSdIn == SdIn("none", SdHeader_default, NoSdOption, << >>)

\* Arguments of the constructors of an entry, at and beyond the bounds of the fields
ArgTtls == {0, 1, 16777215, 16777216, 2147483647}
ArgOptionCounts == {0, 15, 16, 255}
ArgCounters == {0, 15, 16, 255}
SdArgs ==
    { EventgroupEntry(0, 1, 2, n1, n2, 258, 772, 1, ttl, TRUE, counter, 5)
        : n1 \in ArgOptionCounts, n2 \in ArgOptionCounts, ttl \in ArgTtls,
          counter \in ArgCounters }
SdArgsIn(a) == [NoSdIn EXCEPT !.kind = "args", !.args = a]
SdCutIn(items, declared) ==
    [NoSdIn EXCEPT !.kind = "cutwire", !.items = items, !.declared = declared]

\* The constructors, the generic ones with each type they are given
SdConstructors ==
    { <<"new_service_entry", FindService>>, <<"new_service_entry", OfferService>>,
      <<"new_find_service_entry", FindService>>,
      <<"new_offer_service_entry", OfferService>>,
      <<"new_stop_offer_service_entry", OfferService>>,
      <<"new_eventgroup", Subscribe>>, <<"new_eventgroup", SubscribeAck>> }

construct(ctor, a) ==
    IF ctor[1] = "new_service_entry" THEN service_entry(ctor[2], a)
    ELSE IF ctor[1] = "new_find_service_entry" THEN new_find_service_entry(a)
    ELSE IF ctor[1] = "new_offer_service_entry" THEN new_offer_service_entry(a)
    ELSE IF ctor[1] = "new_stop_offer_service_entry"
    THEN new_stop_offer_service_entry(a)
    ELSE eventgroup_entry(ctor[2], a)

SdInputs ==
    { SdIn("header", h, NoSdOption, << >>) : h \in SdHeaders }
        \cup { SdIn("option", SdHeader_default, o, << >>) : o \in SdOptions }
        \cup { SdIn("wire", SdHeader_default, NoSdOption, items) : items \in WireLists }
        \cup { SdArgsIn(a) : a \in SdArgs }
        \cup { SdCutIn(items, declared) : items \in CutLists, declared \in DeclaredLengths }

\* What was in the writer, the vector or the slice before the call
SdWritten == { << >>, << 170, 170 >> }
SdSlices == { << >>, Repeat(170, 40), Repeat(170, 1500) }

SdOut(op, res, before, after, read, optread) ==
    [op |-> op, res |-> res, before |-> before, after |-> after, read |-> read,
     optread |-> optread, entry |-> NoSdEntry, overflow_checks |-> FALSE]
NoSdOut ==
    SdOut("none", SdOk, << >>, << >>, SdReadErr(SdOk), OptionReadErr(SdOk))

InitSd ==
    /\ sdin \in SdInputs
    /\ sdout = NoSdOut

IdleSd ==
    /\ sdin = NoSdIn
    /\ sdout = NoSdOut

\* header.write(&mut buffer); SdHeader::read(&mut Cursor::new(&buffer))
SdWriteRead(overflow_checks) ==
    /\ sut = "sd"
    /\ sdin.kind = "header"
    /\ sdout = NoSdOut
    /\ \E w \in {sd_write(sdin.header, << >>)} :
          sdout' = [SdOut("write_read", w.res, << >>, w.out,
                          IF w.res.ok THEN sd_read(w.out, overflow_checks)
                          ELSE SdReadErr(SdOk),
                          OptionReadErr(SdOk))
                      EXCEPT !.overflow_checks = overflow_checks]
    /\ UNCHANGED sdin
    /\ UNCHANGED exceptSd

\* header.to_bytes_vec()
SdToBytesVec ==
    /\ sut = "sd"
    /\ sdin.kind = "header"
    /\ sdout = NoSdOut
    /\ \E w \in {to_bytes_vec(sdin.header)} :
          sdout' = SdOut("to_bytes_vec", w.res, << >>, w.out, SdReadErr(SdOk),
                         OptionReadErr(SdOk))
    /\ UNCHANGED sdin
    /\ UNCHANGED exceptSd

\* header.write(&mut writer) on a writer that holds the bytes before
SdWrite(before) ==
    /\ sut = "sd"
    /\ sdin.kind = "header"
    /\ sdout = NoSdOut
    /\ \E w \in {sd_write(sdin.header, before)} :
          sdout' = SdOut("write", w.res, before, w.out, SdReadErr(SdOk),
                         OptionReadErr(SdOk))
    /\ UNCHANGED sdin
    /\ UNCHANGED exceptSd

\* header.write_to_slice(&mut slice)
SdWriteToSlice(before) ==
    /\ sut = "sd"
    /\ sdin.kind = "header"
    /\ sdout = NoSdOut
    /\ \E w \in {sd_write_to_slice(sdin.header, before)} :
          sdout' = SdOut("write_to_slice", w.res, before, w.out, SdReadErr(SdOk),
                         OptionReadErr(SdOk))
    /\ UNCHANGED sdin
    /\ UNCHANGED exceptSd

\* option.write(&mut writer)
SdOptionWrite(before) ==
    /\ sut = "sd"
    /\ sdin.kind = "option"
    /\ sdout = NoSdOut
    /\ \E w \in {option_write(sdin.option, before)} :
          sdout' = SdOut("option_write", w.res, before, w.out, SdReadErr(SdOk),
                         OptionReadErr(SdOk))
    /\ UNCHANGED sdin
    /\ UNCHANGED exceptSd

\* option.append_bytes_to_vec(&mut buffer)
SdOptionAppend(before) ==
    /\ sut = "sd"
    /\ sdin.kind = "option"
    /\ sdout = NoSdOut
    /\ \E w \in {append_bytes_to_vec(sdin.option, before)} :
          sdout' = SdOut("append_bytes_to_vec", w.res, before, w.out, SdReadErr(SdOk),
                         OptionReadErr(SdOk))
    /\ UNCHANGED sdin
    /\ UNCHANGED exceptSd

\* The bytes in the reader
SdWire ==
    IF sdin.kind = "wire" THEN WireOf(sdin.items)
    ELSE WireDeclared(sdin.items, sdin.declared)

\* SdHeader::read(&mut Cursor::new(&wire))
SdRead(overflow_checks) ==
    /\ sut = "sd"
    /\ sdin.kind \in {"wire", "cutwire"}
    /\ sdout = NoSdOut
    /\ \E r \in {sd_read(SdWire, overflow_checks)} :
          sdout' = [SdOut("read", r.res, << >>, << >>, r, OptionReadErr(SdOk))
                      EXCEPT !.overflow_checks = overflow_checks]
    /\ UNCHANGED sdin
    /\ UNCHANGED exceptSd

\* SdOption::read(&mut Cursor::new(&options)) on the options of the wire
SdOptionRead(overflow_checks) ==
    /\ sut = "sd"
    /\ sdin.kind \in {"wire", "cutwire"}
    /\ sdin.items # << >>
    /\ sdout = NoSdOut
    /\ \E r \in {option_read(WireItemsBytes(sdin.items), 0, overflow_checks)} :
          sdout' = [SdOut("option_read", r.res, << >>, << >>, SdReadErr(SdOk), r)
                      EXCEPT !.overflow_checks = overflow_checks]
    /\ UNCHANGED sdin
    /\ UNCHANGED exceptSd

\* SdEntry::new_...(arguments)
SdNewEntry(ctor) ==
    /\ sut = "sd"
    /\ sdin.kind = "args"
    /\ sdout = NoSdOut
    /\ \E r \in {construct(ctor, sdin.args)} :
          sdout' = [SdOut(ctor[1], r.res, << >>, << >>, SdReadErr(SdOk),
                          OptionReadErr(SdOk)) EXCEPT !.entry = r.entry]
    /\ UNCHANGED sdin
    /\ UNCHANGED exceptSd

SdNext ==
    \/ \E overflow_checks \in BOOLEAN : SdWriteRead(overflow_checks)
    \/ SdToBytesVec
    \/ \E before \in SdWritten : SdWrite(before)
    \/ \E before \in SdSlices : SdWriteToSlice(before)
    \/ \E before \in SdWritten : SdOptionWrite(before)
    \/ \E before \in SdWritten : SdOptionAppend(before)
    \/ \E overflow_checks \in BOOLEAN : SdRead(overflow_checks)
    \/ \E overflow_checks \in BOOLEAN : SdOptionRead(overflow_checks)
    \/ \E ctor \in SdConstructors : SdNewEntry(ctor)

----------------------------------------------------------------------------
(* Specifications                                                          *)

Suts == {"buf", "pool", "iter", "tph", "codec", "sd"}

\* The component s is driven, the others are idle
InitOf(s) ==
    /\ sut = s
    /\ InitBuf
    /\ InitPool
    /\ IF s = "iter" THEN InitIter ELSE IdleIter
    /\ InitTph
    /\ IF s = "codec" THEN InitCodec ELSE IdleCodec
    /\ IF s = "sd" THEN InitSd ELSE IdleSd

Init == \E s \in Suts : InitOf(s)

Next == BufNext \/ PoolNext \/ IterNext \/ TphNext \/ CodecNext \/ SdNext

\* One of the components is driven
Spec == Init /\ [][Next]_vars

\* A standalone TpBuf is driven
InitSutBuf == InitOf("buf")

SpecBuf == InitSutBuf /\ [][BufNext]_vars

\* A TpPool is driven
InitSutPool == InitOf("pool")

SpecPool == InitSutPool /\ [][PoolNext]_vars

\* A SomeipMsgsIterator is driven
InitSutIter == InitOf("iter")

SpecIter == InitSutIter /\ [][IterNext]_vars

\* A TpHeader is driven
InitSutTph == InitOf("tph")

SpecTph == InitSutTph /\ [][TphNext]_vars

\* The header codec is applied
InitSutCodec == InitOf("codec")

SpecCodec == InitSutCodec /\ [][CodecNext]_vars

\* Service discovery headers and options are written and read
InitSutSd == InitOf("sd")

SpecSd == InitSutSd /\ [][SdNext]_vars

----------------------------------------------------------------------------
(* Claims about a standalone TpBuf                                         *)

Covers(p, pos) == p.offset <= pos /\ pos < PacketEnd(p)
ByteAt(p, pos) == PacketPayload(p)[pos - p.offset + 1]

\* S is a set of segments that ends at E: a segment without more_segments ends
\* at E, no segment reaches beyond E and every segment without more_segments
\* ends at E; overlapping segments carry identical bytes, and the segments of
\* offset 0 agree on the ids of their header.
EndsAt(S, E) ==
    /\ \E p \in S : ~p.more_segments /\ PacketEnd(p) = E
    /\ \A p \in S : PacketEnd(p) <= E /\ (~p.more_segments => PacketEnd(p) = E)
    /\ \A p, q \in S : \A pos \in 0..(E - 1) :
          (Covers(p, pos) /\ Covers(q, pos)) => ByteAt(p, pos) = ByteAt(q, pos)
    /\ \A p, q \in S : (p.offset = 0 /\ q.offset = 0) =>
          (p.message_id = q.message_id /\ p.request_id = q.request_id)

NoGap(S, E) == \A pos \in 0..(E - 1) : \E p \in S : Covers(p, pos)

\* S covers [0, E) with no gaps
IsCover(S, E) == EndsAt(S, E) /\ NoGap(S, E)

\* The segments respect the limits consume_tp enforces
WithinLimits(S, E) ==
    /\ E <= TpMaxPayloadLen
    /\ \A p \in S : p.more_segments => p.len % 16 = 0

ExpectedPayload(S, E) ==
    [i \in 1..E |-> ByteAt(CHOOSE p \in S : Covers(p, i - 1), i - 1)]

\* The header of the segment of offset 0, the TP flag cleared, length = E + 8
ExpectedHeader(S, E) ==
    LET p0 == CHOOSE p \in S : p.offset = 0
        h0 == to_header(PacketSlice(p0))
    IN  [h0 EXCEPT !.tp_header = NoTp, !.length = E + 8]

\* Every segment was accepted, the buffer is complete and finalizes to the
\* expected message
Reassembled(S, E) ==
    /\ fed.all_ok
    /\ is_complete(buf)
    /\ LET f == try_finalize(buf)
       IN  /\ f.some
           /\ f.read.ok
           /\ ~msg_is_tp(f.read.msg)
           /\ payload(f.read.msg) = ExpectedPayload(S, E)
           /\ to_header(f.read.msg) = ExpectedHeader(S, E)

FedEnds == {PacketEnd(p) : p \in fed.packets}

\* C1 as stated (allocation failures set aside): for every set of segments fed
\* to the buffer that covers [0, E) with no gaps, where the segments without
\* more_segments end at E, every segment is accepted, the buffer is complete and
\* try_finalize gives the non-TP message with the bytes in offset order, the
\* header of the offset-0 segment and length E + 8 -- whatever the arrival order.
C1_AnyCoverReassembles ==
    \A E \in FedEnds :
        (IsCover(fed.packets, E) /\ ~fed.alloc_failed) => Reassembled(fed.packets, E)

\* C1 (amended): the same for the covers that stay within the limits consume_tp
\* enforces (E <= tp_max_payload_len, every segment with more_segments of a
\* length that is a multiple of 16); and as long as such a set of segments has
\* a gap in [0, E) the buffer is not complete.
C1_CoverWithinLimitsReassembles ==
    \A E \in FedEnds :
        (EndsAt(fed.packets, E) /\ WithinLimits(fed.packets, E) /\ ~fed.alloc_failed) =>
            IF NoGap(fed.packets, E)
            THEN Reassembled(fed.packets, E)
            ELSE fed.all_ok /\ ~is_complete(buf)

\* Three different segments with an overlap cover [0, E), the one of offset 0
\* arrived last, and the buffer is complete.
C1_Witness ==
    /\ Cardinality(fed.packets) = 3
    /\ \E E \in FedEnds :
          /\ IsCover(fed.packets, E)
          /\ WithinLimits(fed.packets, E)
    /\ \E p, q \in fed.packets : p # q /\ Covers(p, 16) /\ Covers(q, 16)
    /\ bcall.op = "consume_tp" /\ bcall.packet.offset = 0
    /\ ~fed.alloc_failed
    /\ is_complete(buf)

\* C2: whenever try_finalize returns a message, its length field is F + 8 and
\* its payload is F bytes long, F being the recorded final end.
C2_FinalizedLengthIsFinalEnd ==
    LET f == try_finalize(buf)
    IN  f.some =>
            /\ msg_length(f.read.msg) = buf.end.val + 8
            /\ Len(payload(f.read.msg)) = buf.end.val

IsConsumeStep == bcall'.op = "consume_tp" /\ fed'.n = fed.n + 1

\* C3: once a final end P is recorded, consume_tp rejects with
\* ConflictingEnd{P, e} every segment (within the size and alignment limits)
\* whose end e is beyond P and every segment without more_segments whose end
\* differs from P; the recorded end changes only by clear().
C3_ConflictingEndRejected ==
    [][ buf.end.some =>
          /\ IsConsumeStep =>
                LET p == bcall'.packet
                    e == PacketEnd(p)
                    P == buf.end.val
                IN  ( /\ e <= TpMaxPayloadLen
                      /\ ~(p.more_segments /\ p.len % 16 # 0)
                      /\ (e > P \/ (~p.more_segments /\ e # P)) )
                    => bres' = ConflictingEnd(P, e)
          /\ bcall'.op # "clear" => buf'.end = buf.end ]_vars

\* A segment without more_segments that ends before the recorded end was
\* rejected, and the recorded end is still there.
C3_Witness ==
    /\ bcall.op = "consume_tp"
    /\ ~bcall.packet.more_segments
    /\ buf.end.some
    /\ PacketEnd(bcall.packet) < buf.end.val
    /\ bres = ConflictingEnd(buf.end.val, PacketEnd(bcall.packet))

\* C5: consume_tp returns SegmentTooBig{offset, payload_len, max} exactly when
\* offset + payload_len > tp_max_payload_len (a segment that ends exactly at the
\* maximum is not rejected for its size), and the reassembled payload never
\* exceeds tp_max_payload_len bytes.
C5_SegmentTooBigExactly ==
    /\ bcall.op = "consume_tp" =>
          LET p == bcall.packet
          IN  /\ (bres.tag = "SegmentTooBig") <=> (p.offset + p.len > TpMaxPayloadLen)
              /\ (bres.tag = "SegmentTooBig") =>
                    bres = SegmentTooBig(p.offset, p.len, TpMaxPayloadLen)
    /\ Len(buf.data) <= SOMEIP_HEADER_LENGTH + TpMaxPayloadLen
    /\ \A i \in 1..Len(buf.sections) : buf.sections[i].end <= TpMaxPayloadLen
    /\ LET f == try_finalize(buf)
       IN  f.some => Len(payload(f.read.msg)) <= TpMaxPayloadLen

\* A segment whose offset alone exceeds the maximum was rejected by a buffer
\* that holds a payload reaching exactly to the maximum.
C5_Witness ==
    /\ bcall.op = "consume_tp"
    /\ bcall.packet.offset > TpMaxPayloadLen
    /\ bres.tag = "SegmentTooBig"
    /\ Len(buf.data) = SOMEIP_HEADER_LENGTH + TpMaxPayloadLen

----------------------------------------------------------------------------
(* Claims about TpBuf and TpPool alike                                     *)

FitsUnaligned(p) ==
    p.more_segments /\ p.len % 16 # 0 /\ p.offset + p.len <= TpMaxPayloadLen

\* C4: TpBuf::consume_tp and TpPool::consume (for the first segment of a stream
\* and for a later one) return UnalignedTpPayloadLen{offset, payload_len} for
\* every segment with more_segments whose payload length is not a multiple of 16
\* and which fits within the maximum; a segment without more_segments is never
\* rejected for its alignment.
C4_UnalignedRejected ==
    /\ bcall.op = "consume_tp" =>
          LET p == bcall.packet
          IN  /\ FitsUnaligned(p) => bres = UnalignedTpPayloadLen(p.offset, p.len)
              /\ ~p.more_segments => bres.tag # "UnalignedTpPayloadLen"
    /\ (pcall.op = "consume" /\ ~IsPlain(pcall.packet)) =>
          LET p == pcall.packet
          IN  /\ FitsUnaligned(p) =>
                    pres.res = PoolErr(UnalignedTpPayloadLen(p.offset, p.len))
              /\ ~p.more_segments => pres.res.err.tag # "UnalignedTpPayloadLen"

\* The pool rejected an unaligned segment of a stream that has already started
\* (its entry is in the active map).
C4_Witness ==
    /\ pcall.op = "consume"
    /\ FitsUnaligned(pcall.packet)
    /\ active[pcall.key].some
    /\ pres.res = PoolErr(UnalignedTpPayloadLen(pcall.packet.offset, pcall.packet.len))

----------------------------------------------------------------------------
(* Claims about TpPool                                                     *)

\* C6: streams with different (channel id, request id) keys are reassembled
\* independently: every consume call returns what the same call returns on a
\* pool that was given the calls of its key alone, and every active entry is the
\* entry that pool holds (no buffer is shared between keys).
C6_StreamsIndependent ==
    /\ pcall.op = "consume" => pres.res = pres.alone
    /\ \A k \in PoolKeys : active[k] = shadow[k].active[k]

\* The second segment of the stream of channel 2 completed it while the stream
\* of channel 1 with the same request id is still active.
C6_Witness ==
    /\ pcall.op = "consume"
    /\ pcall.key = <<2, 1>>
    /\ pcall.packet.offset = 16
    /\ pres.res.tag = "Some"
    /\ active[<<1, 1>>].some

\* C7: segments whose SOME/IP message ids differ are never combined into one
\* reassembled message, also when they share channel id and request id.
C7_DifferingMessageIdsNotCombined ==
    pcall.op = "consume" => Cardinality(pres.ids) <= 1

IsPoolConsumeStep == pcall'.op = "consume" /\ pcall'.n = pcall.n + 1

\* C8: when a TP segment completes its stream, consume returns Ok(Some(m)), m
\* the non-TP message held by the stream's buffer, the key is removed from the
\* active map and the buffer is the last element of the free-list; no buffer
\* in the active map is complete; and a TP segment whose key is not in the
\* active map starts a new stream.
C8_CompletionFreesKey ==
    [][ /\ (IsPoolConsumeStep /\ ~IsPlain(pcall'.packet)) =>
              LET k == pcall'.key
                  b0 == IF active[k].some THEN active[k].buf ELSE TpBuf_new
                  accepted == pres'.res.tag \in {"None", "Some"}
              IN  \A b1 \in {consume_tp(b0, PoolSlice(pcall'.packet), TRUE).buf} :
                  /\ (accepted /\ is_complete(b1)) => pres'.res.tag = "Some"
                  /\ pres'.res.tag = "Some" =>
                        /\ ~msg_is_tp(pres'.res.msg)
                        /\ ~active'[k].some
                        /\ Len(finished') > 0
                        /\ is_complete(Last(finished'))
                        /\ pres'.res.msg.slice = Last(finished').data
                        /\ Last(finished') = try_finalize(b1).buf
                  /\ (pres'.res.tag = "None" /\ ~active[k].some) =>
                        active'[k] = Entry(b1, pcall'.ts)
        /\ \A k \in PoolKeys : active'[k].some => ~is_complete(active'[k].buf)
      ]_vars

\* The second segment of a stream completed it: the key is gone from the active
\* map and the complete buffer is the last of the free-list.
C8_Witness ==
    /\ pcall.op = "consume"
    /\ pcall.packet.offset = 16
    /\ pres.res.tag = "Some"
    /\ ~active[pcall.key].some
    /\ Len(finished) > 0
    /\ is_complete(Last(finished))

\* C9: consume on a message without the TP flag returns Ok(Some(the message))
\* unchanged and leaves the active map and the free-list unchanged, also when a
\* stream with the same (channel id, request id) is active.
C9_NonTpForwarded ==
    [][ (IsPoolConsumeStep /\ IsPlain(pcall'.packet)) =>
            /\ pres'.res = PoolSome([tp |-> FALSE, slice |-> plain_to_vec(pcall'.packet)])
            /\ active' = active
            /\ finished' = finished ]_vars

\* A message without TP header was forwarded while a stream of its key is active
C9_Witness ==
    /\ pcall.op = "consume"
    /\ IsPlain(pcall.packet)
    /\ pres.res.tag = "Some"
    /\ active[pcall.key].some

\* C10: retain(f) removes from the active map exactly the entries whose
\* timestamp fails f, appends each removed buffer to the free-list (in the order
\* the map yields them) and leaves every other entry and the buffers already in
\* the free-list unchanged; when no entry fails f the pool is unchanged.
C10_RetainRemovesExactlyFailing ==
    [][ (pcall'.op = "retain" /\ pcall'.n = pcall.n + 1) =>
            LET gone == {k \in PoolKeys : active[k].some /\ active[k].ts \notin pcall'.f}
            IN  /\ \A k \in PoolKeys :
                      active'[k] = IF k \in gone THEN NoEntry ELSE active[k]
                /\ Len(finished') = Len(finished) + Cardinality(gone)
                /\ SubSeq(finished', 1, Len(finished)) = finished
                /\ \E o \in DrainOrders(gone) :
                      \A i \in 1..Cardinality(gone) :
                          finished'[Len(finished) + i] = active[o[i]].buf
                /\ gone = {} => (active' = active /\ finished' = finished) ]_vars

\* retain removed a started stream (its incomplete buffer is in the free-list)
\* and kept another one.
C10_Witness ==
    /\ pcall.op = "retain"
    /\ \E k \in PoolKeys : active[k].some /\ active[k].ts \in pcall.f
    /\ Len(finished) > 0
    /\ ~is_complete(Last(finished))
    /\ Len(Last(finished).data) > 0

\* C11: after every consume call that accepts a TP segment without completing
\* its stream, the active entry of the call's key carries the timestamp passed
\* to the call (also when it is older than the stored one), and every other
\* active entry keeps its timestamp.
C11_TimestampOverwritten ==
    [][ (IsPoolConsumeStep /\ ~IsPlain(pcall'.packet) /\ pres'.res.tag = "None") =>
            /\ active'[pcall'.key].some
            /\ active'[pcall'.key].ts = pcall'.ts
            /\ \A j \in PoolKeys \ {pcall'.key} :
                  /\ active'[j].some = active[j].some
                  /\ active'[j].ts = active[j].ts ]_vars

\* The third call gave a segment with timestamp 1 to a stream that stays
\* active, next to another active stream that carries timestamp 2.
C11_Witness ==
    /\ pcall.op = "consume"
    /\ pcall.n = 3
    /\ pcall.ts = 1
    /\ pres.res.tag = "None"
    /\ active[pcall.key].ts = 1
    /\ Cardinality(mids[pcall.key]) = 1
    /\ Len(finished) = 0
    /\ \E j \in PoolKeys \ {pcall.key} : active[j].some /\ active[j].ts = 2

\* C12: a stream started in a buffer taken from the free-list (put there by a
\* completion, by retain or by reserve) behaves as a stream started in a new
\* buffer: the call that starts it gives the result and the active entry it
\* gives on a pool whose free-list is empty, and only the taken buffer leaves
\* the free-list.
C12_RecycledLikeFresh ==
    [][ (IsPoolConsumeStep /\ ~IsPlain(pcall'.packet) /\ ~active[pcall'.key].some) =>
            \E alloc_ok \in BOOLEAN :
                LET fresh == consume([active |-> active, finished |-> << >>],
                                     pcall'.key[1], pcall'.ts,
                                     PoolSlice(pcall'.packet), alloc_ok)
                    rest == IF Len(finished) > 0 THEN Front(finished) ELSE << >>
                IN  /\ pres'.res = fresh.res
                    /\ active' = fresh.pool.active
                    /\ finished' = rest \o fresh.pool.finished ]_vars

\* The stream of channel 2 started in the buffer the completed stream of
\* channel 1 had left in the free-list, and was completed by its second segment.
C12_Witness ==
    /\ pcall.op = "consume"
    /\ pcall.n = 3
    /\ pcall.key = <<2, 1>>
    /\ pcall.packet.offset = 16
    /\ pres.res.tag = "Some"
    /\ Len(shadow[<<1, 1>>].finished) = 1
    /\ Len(finished) = 1

----------------------------------------------------------------------------
(* Claims about SomeipMsgsIterator                                         *)

IsErrItem(x) == x.some /\ ~x.read.ok
IsOkItem(x) == x.some /\ x.read.ok

\* C13: once next has yielded an Err every later call returns None and nothing
\* is left to parse; a single well-formed message cut by one byte yields one
\* Err(UnexpectedEndOfSlice) and then None.
C13_ErrThenNone ==
    /\ \A i, j \in 1..Len(yielded) :
          (i < j /\ IsErrItem(yielded[i])) => yielded[j] = IterNone
    /\ (\E i \in 1..Len(yielded) : IsErrItem(yielded[i])) => Len(it.slice) = 0
    /\ (Len(wire.msgs) = 1 /\ wire.bad = 0 /\ wire.cut = 1) =>
          \A i \in 1..Len(yielded) :
              yielded[i] = IF i = 1
                           THEN IterSome(ReadErr("UnexpectedEndOfSlice",
                                                 Len(WireBytes(wire))))
                           ELSE IterNone

\* The first of two messages was rejected; the well-formed second one was never
\* yielded: the calls gave Err, None, None.
C13_Witness ==
    /\ Len(wire.msgs) = 2
    /\ wire.bad = 1
    /\ wire.cut = 0
    /\ Len(yielded) = 3
    /\ yielded[1] = IterSome(ReadErr("UnsupportedProtocolVersion", 2))
    /\ yielded[2] = IterNone
    /\ yielded[3] = IterNone

WellFormed(w) == w.bad = 0 /\ w.cut = 0

\* C14: over the concatenation of n well-formed messages the iterator yields
\* n Ok views and then None, the i-th view being the i-th message (its bytes,
\* header and payload); every Ok step advances the remaining slice by the
\* message's length field + 8.
C14_YieldsMessagesInOrder ==
    [][ /\ WellFormed(wire') =>
              \A i \in 1..Len(yielded') :
                  IF i <= Len(wire'.msgs)
                  THEN /\ IsOkItem(yielded'[i])
                       /\ yielded'[i].read.msg.slice = WireMsgBytes(wire'.msgs[i])
                       /\ to_header(yielded'[i].read.msg) = wire'.msgs[i].header
                       /\ payload(yielded'[i].read.msg) = wire'.msgs[i].payload
                  ELSE yielded'[i] = IterNone
        /\ (Len(yielded') = Len(yielded) + 1 /\ IsOkItem(Last(yielded'))) =>
              LET n == msg_length(Last(yielded').read.msg) + 8
              IN  /\ Len(it'.slice) = Len(it.slice) - n
                  /\ it'.slice = Slice(it.slice, n, Len(it.slice)) ]_vars

\* Three well-formed messages, a TP segment among them, were yielded and the
\* fourth call gave None.
C14_Witness ==
    /\ WellFormed(wire)
    /\ Len(wire.msgs) = 3
    /\ \E i \in 1..3 : wire.msgs[i].header.tp_header.some
    /\ wire.msgs[1] # wire.msgs[2]
    /\ Len(yielded) = 4
    /\ IsOkItem(yielded[3])
    /\ yielded[4] = IterNone

----------------------------------------------------------------------------
(* Claims about TpHeader                                                   *)

\* C15: with_offset(o, m) gives the header of offset o and flag m iff o is a
\* multiple of 16 and TpOffsetNotMultipleOf16(o) otherwise; set_offset(v)
\* applies the same rule and leaves the header as it was when it fails; the
\* offset of every header reached by new, with_offset, set_offset, read and
\* read_from_slice is a multiple of 16.
C15_OffsetMultipleOf16 ==
    [][ /\ tph'.offset % 16 = 0
        /\ tcall'.op = "with_offset" =>
              IF tcall'.offset % 16 = 0
              THEN /\ tres' = ValueOk
                   /\ tph' = [offset |-> tcall'.offset, more_segment |-> tcall'.more]
              ELSE /\ tres' = ValueErr("TpOffsetNotMultipleOf16", tcall'.offset)
                   /\ tph' = tph
        /\ tcall'.op = "set_offset" =>
              IF tcall'.offset % 16 = 0
              THEN /\ tres' = ValueOk
                   /\ tph' = [offset |-> tcall'.offset, more_segment |-> tph.more_segment]
              ELSE /\ tres' = ValueErr("TpOffsetNotMultipleOf16", tcall'.offset)
                   /\ tph' = tph ]_vars

\* set_offset(31) failed on a header that read had decoded from bytes with all
\* bits set.
C15_Witness ==
    /\ tcall.op = "set_offset"
    /\ tcall.offset = 31
    /\ tres = ValueErr("TpOffsetNotMultipleOf16", 31)
    /\ tph = [offset |-> 2147483632, more_segment |-> TRUE]

----------------------------------------------------------------------------
(* Claims about the header codec                                           *)

\* C16: for every header H with length >= 8, each message type, with or
\* without TP header: read(write_raw(H)) = H, write_raw sets bit 0x20 of the
\* message type byte iff H has a TP header and appends the 4-byte TP field;
\* and from_slice over write_raw(H) followed by a payload that fills the
\* length gives to_header() = H and payload() equal to those bytes.
C16_HeaderRoundTrip ==
    cout.kind = "write_read" =>
        LET H == cin.header
        IN  /\ cout.read = HeaderOk(H)
            /\ HasTpFlag(cout.written[14 + 1]) <=> H.tp_header.some
            /\ Len(cout.written) = SOMEIP_HEADER_LENGTH
                                      + (IF H.tp_header.some THEN TP_HEADER_LENGTH ELSE 0)
            /\ PayloadRoom(H) >= 0 =>
                  /\ cout.slice.ok
                  /\ to_header(cout.slice.msg) = H
                  /\ payload(cout.slice.msg) = InputPayload(cin)

\* A header with a TP header of the largest offset and two payload bytes went
\* through write, read and from_slice.
C16_Witness ==
    /\ cout.kind = "write_read"
    /\ cin.header.tp_header = SomeTp(2147483632, TRUE)
    /\ cin.header.message_type = MessageTypeError
    /\ Len(InputPayload(cin)) = 2
    /\ cout.slice.ok

\* The conditions under which a slice input is a valid message
SliceValid(c) ==
    /\ c.len >= 16
    /\ c.length >= 8
    /\ HasTpFlag(c.type) => c.length >= 12
    /\ c.len >= c.length + 8
    /\ c.version = 1
    /\ ClearTpFlag(c.type) \in {0, 1, 2, 128, 129}

\* C17: from_slice accepts a slice iff it holds at least 16 bytes, the length
\* field L is >= 8 (>= 12 with the TP flag), the slice holds at least L + 8
\* bytes, the protocol version is 1 and the message type without the TP flag
\* is known; the view is then the first L + 8 bytes, is_tp() is the TP flag
\* and payload() is the view from offset 16 (20 with TP) to its end.
C17_FromSliceAcceptsIff ==
    cout.kind = "from_slice" =>
        /\ cout.slice.ok <=> SliceValid(cin)
        /\ cout.slice.ok =>
              LET m == cout.slice.msg
                  from == IF HasTpFlag(cin.type) THEN 20 ELSE 16
              IN  /\ m.slice = Slice(InputSlice(cin), 0, cin.length + 8)
                  /\ msg_is_tp(m) = HasTpFlag(cin.type)
                  /\ payload(m) = Slice(InputSlice(cin), from, cin.length + 8)

\* A TP message with one payload byte, followed by two bytes that are not part
\* of it, was accepted.
C17_Witness ==
    /\ cout.kind = "from_slice"
    /\ cout.slice.ok
    /\ HasTpFlag(cin.type)
    /\ cin.length = 13
    /\ cin.len = 23
    /\ Len(payload(cout.slice.msg)) = 1

----------------------------------------------------------------------------
(* Claims about service discovery                                          *)

\* The entry passes the checks of the constructor of its variant
EntryValid(e) ==
    IF e.kind = "Service" THEN new_service_entry(e).ok ELSE new_eventgroup(e).ok

\* The header is one the round trip is claimed for: a write followed by a
\* read, both arrays within 1388 bytes, entries as the constructors give
\* them, options of the eight known types
RoundTripCase ==
    /\ sdout.op = "write_read"
    /\ Len(sdin.header.entries) * 16 <= 1388
    /\ options_len(sdin.header.options) <= 1388
    /\ \A k \in 1..Len(sdin.header.entries) : EntryValid(sdin.header.entries[k])
    /\ \A k \in 1..Len(sdin.header.options) :
          sdin.header.options[k].kind # "UnknownDiscardable"

\* The option names TCP or UDP by the number, as Generic(0x06) or Generic(0x11)
TcpUdpAsGeneric(o) ==
    /\ o.transport_protocol.kind = "Generic"
    /\ o.transport_protocol.n \in {6, 17}

\* The option with Generic(0x06) read as Tcp and Generic(0x11) as Udp
AsRead(o) ==
    IF TcpUdpAsGeneric(o)
    THEN [o EXCEPT !.transport_protocol =
                       IF o.transport_protocol.n = 6 THEN Tcp ELSE Udp]
    ELSE o

WireDiscardable(w) == (w.flags \div 128) % 2 = 1

\* What an option of the wire is to be decoded to
Decoded(w) ==
    IF w.known THEN w.option ELSE UnknownDiscardable(w.length, w.option_type)

\* The positions of the options of unknown type without the discardable flag
Refused(items) ==
    {k \in 1..Len(items) : ~items[k].known /\ ~WireDiscardable(items[k])}

\* C19: an option of unknown type with the discardable flag is read as the
\* placeholder UnknownDiscardable{length, option_type}, its length - 1
\* payload bytes skipped, so that the k-th option of the wire is the k-th
\* element of the options read; without the flag the read fails with
\* UnknownSdOptionType(type).
C19_UnknownOptions ==
    /\ (sdout.op = "read" /\ sdin.kind = "wire") =>
          IF Refused(sdin.items) = {}
          THEN /\ sdout.res.ok
               /\ Len(sdout.read.hdr.options) = Len(sdin.items)
               /\ \A k \in 1..Len(sdin.items) :
                     sdout.read.hdr.options[k] = Decoded(sdin.items[k])
          ELSE LET first == CHOOSE k \in Refused(sdin.items) :
                                \A j \in Refused(sdin.items) : k <= j
               IN  sdout.res = SdErr("UnknownSdOptionType", sdin.items[first].option_type)
    /\ (sdout.op = "option_read" /\ sdin.kind = "wire" /\ ~sdin.items[1].known) =>
          LET w == sdin.items[1]
          IN  IF WireDiscardable(w)
              THEN /\ sdout.res.ok
                   /\ sdout.optread.option = UnknownDiscardable(w.length, w.option_type)
                   /\ sdout.optread.pos = 4 + (w.length - 1)
                   /\ sdout.optread.read_bytes = 3 + w.length
              ELSE sdout.res = SdErr("UnknownSdOptionType", w.option_type)

\* A header was read whose options are an unknown discardable one with four
\* payload bytes, a known one and another unknown discardable one: the known
\* one is the second option read.
C19_Witness ==
    /\ sdout.op = "read"
    /\ sdout.res.ok
    /\ Len(sdin.items) = 3
    /\ sdin.items[1] = WireRaw(5, 3, 255)
    /\ sdin.items[2].known
    /\ sdin.items[3] = WireRaw(1, 255, 128)
    /\ sdout.read.hdr.options[1] = UnknownDiscardable(5, 3)
    /\ sdout.read.hdr.options[2] = sdin.items[2].option

\* The positions of the placeholders among the options
Placeholders(options) ==
    {k \in 1..Len(options) : options[k].kind = "UnknownDiscardable"}

\* C20: writing a placeholder (SdOption::write, append_bytes_to_vec) or a
\* header whose options contain one (SdHeader::write, write_to_slice,
\* to_bytes_vec) fails with SdUnknownDiscardableOption(option_type);
\* SdHeader::write then emits no byte and write_to_slice leaves the slice as
\* it was.
C20_PlaceholderNotWritten ==
    /\ (sdout.op \in {"option_write", "append_bytes_to_vec"}
          /\ sdin.option.kind = "UnknownDiscardable") =>
          /\ sdout.res = SdErr("SdUnknownDiscardableOption", sdin.option.option_type)
          /\ sdout.after = sdout.before
    /\ (sdout.op \in {"write", "write_to_slice", "to_bytes_vec"}
          /\ Placeholders(sdin.header.options) # {}) =>
          LET first == CHOOSE k \in Placeholders(sdin.header.options) :
                           \A j \in Placeholders(sdin.header.options) : k <= j
          IN  /\ sdout.res = SdErr("SdUnknownDiscardableOption",
                                   sdin.header.options[first].option_type)
              /\ sdout.op \in {"write", "write_to_slice"} => sdout.after = sdout.before

\* A header with entries, a known option and two placeholders was written to a
\* writer that held two bytes: the call failed and the writer holds the two.
C20_Witness ==
    /\ sdout.op = "write"
    /\ Len(sdin.header.entries) = 2
    /\ Len(sdin.header.options) = 3
    /\ sdin.header.options[2] = UnknownDiscardable(3, 0)
    /\ sdout.before = << 170, 170 >>
    /\ ~sdout.res.ok
    /\ sdout.after = << 170, 170 >>

\* The arguments of a constructor call that are beyond the bounds of the fields
\* (new_stop_offer_service_entry has no ttl, the service entries no counter)
OutOfBounds(op, a) ==
    \/ op # "new_stop_offer_service_entry" /\ a.ttl > 16777215
    \/ a.number_of_options_1 > 15
    \/ a.number_of_options_2 > 15
    \/ op = "new_eventgroup" /\ a.counter > 15

\* The error names an argument that is beyond its bound, with its value
NamesArgument(op, a, r) ==
    \/ r = SdErr("TtlTooLarge", a.ttl)
          /\ a.ttl > 16777215 /\ op # "new_stop_offer_service_entry"
    \/ r = SdErr("NumberOfOption1TooLarge", a.number_of_options_1)
          /\ a.number_of_options_1 > 15
    \/ r = SdErr("NumberOfOption2TooLarge", a.number_of_options_2)
          /\ a.number_of_options_2 > 15
    \/ r = SdErr("CounterTooLarge", a.counter)
          /\ a.counter > 15 /\ op = "new_eventgroup"

ZeroTtlRefused(op, a) ==
    op \in {"new_find_service_entry", "new_offer_service_entry"} /\ a.ttl = 0

\* C21: an entry a constructor returns has ttl <= 0x00FF_FFFF, both numbers of
\* options <= 0x0F and, as an eventgroup entry, counter <= 0x0F; an argument
\* beyond these bounds gives TtlTooLarge, NumberOfOption1TooLarge,
\* NumberOfOption2TooLarge or CounterTooLarge; new_find_service_entry and
\* new_offer_service_entry give TtlZeroIndicatesStopOffering for ttl == 0 (the
\* check that comes first), and an entry with ttl == 0 comes only from
\* new_stop_offer_service_entry, new_service_entry and new_eventgroup.
C21_ConstructorsValidate ==
    (sdin.kind = "args" /\ sdout.op # "none") =>
        LET a == sdin.args
            e == sdout.entry
        IN  /\ sdout.res.ok =>
                /\ e.ttl <= 16777215
                /\ e.number_of_options_1 <= 15
                /\ e.number_of_options_2 <= 15
                /\ e.kind = "Eventgroup" => e.counter <= 15
                /\ e.kind = (IF sdout.op = "new_eventgroup"
                             THEN "Eventgroup" ELSE "Service")
                /\ e.ttl = 0 => sdout.op \in {"new_stop_offer_service_entry",
                                              "new_service_entry", "new_eventgroup"}
            /\ ZeroTtlRefused(sdout.op, a) =>
                sdout.res = SdErr("TtlZeroIndicatesStopOffering", 0)
            /\ (OutOfBounds(sdout.op, a) /\ ~ZeroTtlRefused(sdout.op, a)) =>
                NamesArgument(sdout.op, a, sdout.res)
            /\ (~OutOfBounds(sdout.op, a) /\ ~ZeroTtlRefused(sdout.op, a)) =>
                sdout.res.ok

\* new_stop_offer_service_entry was given numbers of options at their bound and
\* returned an OfferService entry with ttl 0.
C21_Witness ==
    /\ sdout.op = "new_stop_offer_service_entry"
    /\ sdin.args.number_of_options_1 = 15
    /\ sdin.args.number_of_options_2 = 15
    /\ sdin.args.ttl = 16777216
    /\ sdout.res.ok
    /\ sdout.entry.type = OfferService
    /\ sdout.entry.ttl = 0

\* C22: an accepted segment writes its payload over whatever the buffer holds
\* at [offset, offset + len), equal bytes or not, and leaves every other
\* payload byte as it was; a rejected segment changes no byte.  So each byte of
\* the reassembled payload is the byte of the most recently accepted segment
\* that covers its position.
C22_LastSegmentWins ==
    [][IsConsumeStep =>
        LET p == bcall'.packet
        IN  IF bres' = TpOk
            THEN /\ Len(buf'.data) = Max(Len(buf.data), SOMEIP_HEADER_LENGTH + PacketEnd(p))
                 /\ \A pos \in 0..(Len(buf'.data) - SOMEIP_HEADER_LENGTH - 1) :
                       buf'.data[SOMEIP_HEADER_LENGTH + pos + 1] =
                          IF Covers(p, pos) THEN ByteAt(p, pos)
                          ELSE IF SOMEIP_HEADER_LENGTH + pos + 1 <= Len(buf.data)
                          THEN buf.data[SOMEIP_HEADER_LENGTH + pos + 1]
                          ELSE 0
            ELSE buf'.data = buf.data]_vars

\* The range [0, 16) was received with other bytes and then written again by
\* an accepted segment of 32 bytes: the buffer holds the bytes of the later one,
\* and try_finalize returns them.
C22_Witness ==
    /\ bcall = BufCall("consume_tp", TestPacket(1234, 23, 0, FALSE, 32, 0))
    /\ bres = TpOk
    /\ fed.all_ok
    /\ TestPacket(1234, 23, 0, TRUE, 16, 100) \in fed.packets
    /\ TestPacket(1234, 23, 16, TRUE, 16, 100) \in fed.packets
    /\ try_finalize(buf).some
    /\ payload(try_finalize(buf).read.msg) = sequence(0, 32)

\* Two ranges overlap or touch
Touching(a, b) == a.start <= b.end /\ b.start <= a.end

\* No two stored ranges overlap or touch, and none is reversed
RangesApart(sections) ==
    /\ \A i \in 1..Len(sections) : sections[i].start <= sections[i].end
    /\ \A i, j \in 1..Len(sections) :
          i # j => ~Touching(sections[i], sections[j])

RangesOrdered(sections) ==
    \A i, j \in 1..Len(sections) : i < j => sections[i].start < sections[j].start

\* The ranges TpRange::merge is compared on
MergeRanges ==
    {r \in {TpRange(a, b) : a, b \in {0, 8, 16, 24, 32, 40}} : r.start <= r.end}

FirstLength == u16_from_be_bytes(WireItemsBytes(sdin.items)[1], WireItemsBytes(sdin.items)[2])

\* C24: for every option SdOption::read accepts, the byte count it returns is
\* 3 + length and is the number of bytes the call consumed from the reader.
C24_ReadBytesIsConsumed ==
    (sdout.op = "option_read" /\ sdout.res.ok) =>
        /\ sdout.optread.read_bytes = 3 + FirstLength
        /\ sdout.optread.pos = sdout.optread.read_bytes

\* What C25 says of a call of set_method_or_event_id but for is_event
SetIdCase(event) ==
    /\ event_or_method_id(cout.header) = cin.id
    /\ is_event(cout.header) = event
    /\ header_service_id(cout.header) = header_service_id(cin.header)
    /\ cout.header = [cin.header EXCEPT !.message_id = cout.header.message_id]
    /\ cout.slice.ok
    /\ msg_is_event(cout.slice.msg) = event
    /\ msg_event_or_method_id(cout.slice.msg) = cin.id
    /\ msg_service_id(cout.slice.msg) = header_service_id(cin.header)

C26_ErrorLeavesPool ==
    [][(IsPoolConsumeStep /\ pres'.res.tag = "Err") =>
          /\ active' = active
          /\ Len(finished') = Len(finished)]_vars

\* C27: whenever a TpBuf has a recorded final end F and the segments it
\* accepted cover every byte of [0, F), is_complete() is true.
C27_CoveredIsComplete ==
    (buf.end.some /\ fed.all_ok /\ NoGap(fed.packets, buf.end.val)) => is_complete(buf)

\* C28: a consume_tp call that returns an error (SegmentTooBig,
\* UnalignedTpPayloadLen, ConflictingEnd or AllocationFailure) leaves the data
\* bytes, the range set and the recorded final end of the TpBuf as they were,
\* and so is_complete() and the result of try_finalize.
C28_RejectedLeavesBuf ==
    [][(IsConsumeStep /\ bres' # TpOk) =>
          /\ bres'.tag \in {"SegmentTooBig", "UnalignedTpPayloadLen", "ConflictingEnd",
                            "AllocationFailure"}
          /\ buf'.data = buf.data
          /\ buf'.sections = buf.sections
          /\ buf'.end = buf.end
          /\ is_complete(buf') = is_complete(buf)
          /\ try_finalize(buf') = try_finalize(buf)]_vars

\* A complete buffer of 32 bytes was given a segment that ends beyond its
\* final end: the segment was rejected and the buffer finalizes to the message
\* of 32 bytes.
C28_Witness ==
    /\ bcall = BufCall("consume_tp", TestPacket(1234, 23, 32, FALSE, 8, 0))
    /\ bres.tag = "ConflictingEnd"
    /\ fed.n = 3
    /\ buf.end = SomeEnd(32)
    /\ Len(buf.data) = SOMEIP_HEADER_LENGTH + 32
    /\ try_finalize(buf).some
    /\ payload(try_finalize(buf).read.msg) = sequence(0, 32)

\* C30: in every reachable TpBuf state in which is_complete() holds, the data
\* vector is exactly 16 + (end of the single stored interval) bytes long, its
\* first 16 bytes are a valid SOME/IP header without the TP flag (protocol
\* version 1, known message type), from_slice in try_finalize succeeds, and
\* the end of the interval is within the configured maximum payload length
\* (so that end + 8 stays within 32 bits).
C30_CompleteIsFinalizable ==
    is_complete(buf) =>
        /\ Len(buf.data) = SOMEIP_HEADER_LENGTH + buf.sections[1].end
        /\ buf.data[4 * 3 + 1] = SOMEIP_PROTOCOL_VERSION
        /\ ~HasTpFlag(buf.data[4 * 3 + 2 + 1])
        /\ buf.data[4 * 3 + 2 + 1] \in KnownMessageTypes
        /\ buf.sections[1].end <= TpMaxPayloadLen
        /\ \A f \in {try_finalize(buf)} :
              /\ f.some
              /\ f.read.ok
              /\ ~f.read.msg.tp
              /\ msg_length(f.read.msg) = buf.sections[1].end + 8
              /\ Len(f.read.msg.slice) = Len(buf.data)

\* The same for the buffers of a TpPool: try_finalize().unwrap() in
\* TpPool::consume never meets a None.
C30_PoolUnwrapNeverFails == pres.res.tag # "Panic"

\* [16, 32) and then the final segment [0, 16): the buffer is complete with the
\* recorded end 16 and the single interval [0, 32) in 16 + 32 bytes.
C30_Witness ==
    /\ bcall.op = "consume_tp"
    /\ bres = TpOk
    /\ is_complete(buf)
    /\ buf.end = SomeEnd(16)
    /\ buf.sections = <<TpRange(0, 32)>>
    /\ Len(buf.data) = SOMEIP_HEADER_LENGTH + 32
    /\ try_finalize(buf).read.ok

\* The position of the first option in the reader: flags, reserved bytes, the
\* length of the entries, one entry, the length of the options
OptionsStart == 1 + 3 + 4 + ENTRY_LEN + 4

\* C29: SdHeader::read consumes exactly options_len_bytes bytes of options: no
\* run of it ends in a panic of the subtraction, none reads an option that
\* goes past the end of the declared options array, and a header that is
\* accepted has read exactly the declared number of bytes.
C29_OptionsWithinDeclared ==
    (sdout.op = "read" /\ sdin.kind = "cutwire") =>
        /\ sdout.res.err # "Panic"
        /\ sdout.read.options_to <= OptionsStart + sdin.declared
        /\ sdout.res.ok => sdout.read.options_to = OptionsStart + sdin.declared
====
